---- MODULE Spec2Model ----
(***************************************************************************)
(* A model of the Ansible deploy driver of ironic-staging-drivers          *)
(* (ironic_staging_drivers/ansible/deploy.py).                             *)
(*                                                                         *)
(* Every driver entry point (deploy, prepare_cleaning, execute_clean_step, *)
(* tear_down_cleaning, heartbeat) is one action.  The body of an entry point is an operator    *)
(* that threads an execution record s through the statements of the       *)
(* Python code:                                                            *)
(*   s.node    the in-memory task.node                                     *)
(*   s.db      the node as last persisted by node.save()                   *)
(*   s.locked  whether the task still holds the exclusive node lock        *)
(*   s.log     the calls made to external collaborators, in order          *)
(*   s.exc     the exception in flight (NoExc when none)                   *)
(*   s.val     the value returned by the last helper called                *)
(*   s.rpcs    the continue_node_clean RPCs delivered to the conductor     *)
(* An operator that models a statement leaves s alone when s.exc is set,   *)
(* which is how a raised exception skips the rest of a Python block.       *)
(***************************************************************************)
EXTENDS Integers, Sequences, FiniteSets, TLC

VARIABLES node, conf, rpc_pending, call, log, result

vars == <<node, conf, rpc_pending, call, log, result>>

-----------------------------------------------------------------------------
(* Bounds of the model. *)

\* largest CONF.ansible.post_deploy_get_power_state_retries explored
MaxRetries == 2

\* most continue_node_clean RPCs allowed to wait for the conductor
MaxPending == 2

\* most entries of a clean-steps file
MaxEntries == 2

\* most periods of a suspend schedule
MaxPeriods == 2

\* most names in a list of days
MaxDays == 3

\* most elements of a raw response
MaxRaw == 22

\* most bytes of a dump file after the record looked for
MaxTail == 3

-----------------------------------------------------------------------------
(* Values. *)

NoExc == "NoExc"
None == "None"

\* An optional value (dict.get(), a keyword argument): <<>> is absent / None.
Absent == <<>>
Some(v) == <<v>>

\* ironic.common.states, as used by the driver
DEPLOYWAIT == "wait call-back"
DEPLOYDONE == "deploy complete"
DEPLOYING == "deploying"
DEPLOYFAIL == "deploy failed"
ACTIVE == "active"
AVAILABLE == "available"
CLEANING == "cleaning"
CLEANWAIT == "clean wait"
CLEANFAIL == "clean failed"
POWER_ON == "power on"
POWER_OFF == "power off"
REBOOT == "rebooting"
ERROR == "error"

\* Python truthiness of an optional boolean (dict.get() of a flag)
Truthy(o) == o # Absent /\ o[1] = TRUE

\* an empty dict
EmptyDict == [k \in {} |-> Absent]

\* dict.get(key, default)
dict_get(d, key, default) == IF key \in DOMAIN d THEN d[key] ELSE default

\* dict.update(): the keys of e override those of d
Update(d, e) == [k \in DOMAIN d \cup DOMAIN e |-> IF k \in DOMAIN e THEN e[k] ELSE d[k]]

-----------------------------------------------------------------------------
(* The execution record. *)

Start(n) == [node |-> n, db |-> n, locked |-> TRUE, log |-> <<>>,
             exc |-> NoExc, val |-> None, rpcs |-> 0]

Raise(s, e) == [s EXCEPT !.exc = e]

Return(s, v) == [s EXCEPT !.val = v]

\* a call to an external collaborator, recorded with the lock state it ran under
Emit(s, e) == [s EXCEPT !.log = Append(@, e @@ [locked |-> s.locked])]

\* node.save()
Save(s) == [s EXCEPT !.db = s.node]

-----------------------------------------------------------------------------
(* External collaborators.  env.fail names the call site that raises in    *)
(* this run ("none": no call raises).                                      *)

\* manager_utils.node_power_action(task, state)
node_power_action(s, env, site, state) ==
    IF s.exc # NoExc THEN s
    ELSE LET ok == env.fail # site
             s1 == Emit(s, [call |-> "node_power_action", state |-> state, ok |-> ok])
         IN IF ok THEN s1 ELSE Raise(s1, "PowerStateFailure")

\* manager_utils.node_set_boot_device(task, device, persistent=...)
node_set_boot_device(s, env, device, persistent) ==
    IF s.exc # NoExc THEN s
    ELSE LET ok == env.fail # "set_boot_device"
             s1 == Emit(s, [call |-> "node_set_boot_device", device |-> device,
                            persistent |-> persistent, ok |-> ok])
         IN IF ok THEN s1 ELSE Raise(s1, "InvalidParameterValue")

\* task.driver.boot.clean_up_ramdisk(task)
clean_up_ramdisk(s, env) ==
    IF s.exc # NoExc THEN s
    ELSE LET ok == env.fail # "clean_up_ramdisk"
             s1 == Emit(s, [call |-> "clean_up_ramdisk", ok |-> ok])
         IN IF ok THEN s1 ELSE Raise(s1, "Exception")

\* task.driver.boot.prepare_ramdisk(task, boot_opt)
prepare_ramdisk(s, env, boot_opt) ==
    IF s.exc # NoExc THEN s
    ELSE LET ok == env.fail # "prepare_ramdisk"
             s1 == Emit(s, [call |-> "prepare_ramdisk", boot_opt |-> boot_opt, ok |-> ok])
         IN IF ok THEN s1 ELSE Raise(s1, "Exception")

\* deploy_utils.prepare_cleaning_ports(task)
prepare_cleaning_ports(s, env) ==
    IF s.exc # NoExc THEN s
    ELSE LET ok == env.fail # "prepare_cleaning_ports"
             s1 == Emit(s, [call |-> "prepare_cleaning_ports", ok |-> ok])
         IN IF ok THEN s1 ELSE Raise(s1, "NodeCleaningFailure")

\* task.process_event(event): the provisioning state machine of the
\* orchestrator, restricted to the events the driver sends; it saves the node.
process_event(s, event) ==
    IF s.exc # NoExc THEN s
    ELSE LET target == IF event = "resume" /\ s.node.provision_state = DEPLOYWAIT THEN DEPLOYING
                       ELSE IF event = "done" /\ s.node.provision_state = DEPLOYING THEN ACTIVE
                       ELSE None
             s1 == Emit(s, [call |-> "process_event", event |-> event])
         IN IF target = None THEN Raise(s1, "InvalidState")
            ELSE Save([s1 EXCEPT !.node.provision_state = target])

\* node.save() of the driver's own code; the write may fail in the database
node_save(s, env) ==
    IF s.exc # NoExc THEN s
    ELSE LET ok == env.fail # "save"
             s1 == Emit(s, [call |-> "node.save", ok |-> ok])
         IN IF ok THEN Save(s1) ELSE Raise(s1, "NodeNotFound")

-----------------------------------------------------------------------------
(* Strings are sequences of one-character strings, so that parsing a URL   *)
(* is computed and not assumed.                                            *)

SchemeChars == {"h", "t", "p", "a", "b"}

\* index of the first element of str at or after position i that is in cs
\* (Len(str) + 1 when there is none): str.find()
RECURSIVE FindFirst(_, _, _)
FindFirst(str, cs, i) ==
    IF i > Len(str) THEN Len(str) + 1
    ELSE IF str[i] \in cs THEN i
    ELSE FindFirst(str, cs, i + 1)

\* urlparse.urlparse(url).netloc: the scheme is what precedes the first ':'
\* when it is made of scheme characters; the netloc is what follows a
\* leading '//' up to the first '/', '?' or '#'
netloc(url) ==
    LET colon == FindFirst(url, {":"}, 1)
        hasScheme == /\ colon > 1
                     /\ colon <= Len(url)
                     /\ \A j \in 1..(colon - 1) : url[j] \in SchemeChars
        rest == IF hasScheme THEN SubSeq(url, colon + 1, Len(url)) ELSE url
    IN IF Len(rest) >= 2 /\ rest[1] = "/" /\ rest[2] = "/"
       THEN SubSeq(rest, 3, FindFirst(rest, {"/", "?", "#"}, 3) - 1)
       ELSE <<>>

\* str.split(':')[0]
split_colon_0(str) == SubSeq(str, 1, FindFirst(str, {":"}, 1) - 1)

\* a variant of address_of that keeps the port
address_with_port(callback_url) == netloc(callback_url)

\* heartbeat's address: urlparse.urlparse(callback_url).netloc.split(':')[0]
address_of(callback_url) == split_colon_0(netloc(callback_url))

-----------------------------------------------------------------------------
(* Helpers of the driver. *)

DEFAULT_PLAYBOOKS == [deploy |-> "deploy.yaml", clean |-> "clean.yaml"]

\* _parse_ansible_driver_info(node, action): (playbook, user, key)
_parse_ansible_driver_info(s, action) ==
    IF s.exc # NoExc THEN s
    ELSE LET di == s.node.driver_info
             user == IF di.deploy_username = Absent THEN "ansible" ELSE di.deploy_username[1]
             key == di.deploy_key_file
             o == IF action = "deploy" THEN di.deploy_playbook ELSE di.clean_playbook
             playbook == IF o = Absent THEN DEFAULT_PLAYBOOKS[action] ELSE o[1]
         IN IF playbook = "" THEN Raise(s, "IronicException")
            ELSE Return(s, [playbook |-> playbook, user |-> user, key |-> key])

\* _get_node_ip(task); ip_addrs is what the DHCP provider answers
_get_node_ip(s, ip_addrs) ==
    IF s.exc # NoExc THEN s
    ELSE LET s1 == Emit(s, [call |-> "get_ip_addresses", ip_addrs |-> ip_addrs])
         IN IF ip_addrs = <<>> THEN Raise(s1, "FailedToGetIPAddressOnPort")
            ELSE IF Len(ip_addrs) > 1 THEN Raise(s1, "InstanceDeployFailure")
            ELSE Return(s1, ip_addrs[1])

\* a variant of the poll whose retry condition holds for every result, so
\* that a reading of POWER_OFF does not end it
RECURSIVE _wait_retry_always(_, _, _, _)
_wait_retry_always(s, reads, attempt_number, attempts) ==
    LET state == reads[attempt_number]
        s1 == Emit(s, [call |-> "get_power_state", state |-> state])
    IN IF attempt_number >= attempts
       THEN Raise(s1, IF state = ERROR THEN "PowerStateError" ELSE "RetryError")
       ELSE _wait_retry_always(s1, reads, attempt_number + 1, attempts)

\* the loop of retrying.retry(stop_max_attempt_number=attempts,
\* retry_on_result=lambda state: state != POWER_OFF) around get_power_state:
\* a result other than POWER_OFF, and a raised exception, are retried until
\* attempt number attempts, after which the wrapper raises
RECURSIVE _wait_until_powered_off(_, _, _, _)
_wait_until_powered_off(s, reads, attempt_number, attempts) ==
    LET state == reads[attempt_number]
        s1 == Emit(s, [call |-> "get_power_state", state |-> state])
    IN IF state = POWER_OFF THEN Return(s1, state)
       ELSE IF attempt_number >= attempts
            THEN Raise(s1, IF state = ERROR THEN "PowerStateError" ELSE "RetryError")
       ELSE _wait_until_powered_off(s1, reads, attempt_number + 1, attempts)

\* a variant of _reboot_and_finish_deploy without the try/except around the poll
_reboot_no_except(s, env) ==
    IF s.exc # NoExc THEN s
    ELSE LET attempts == conf.post_deploy_get_power_state_retries + 1
             s1 == _wait_until_powered_off(s, env.reads, 1, attempts)
         IN node_power_action(s1, env, "reboot", REBOOT)

\* _reboot_and_finish_deploy(task)
_reboot_and_finish_deploy(s, env) ==
    IF s.exc # NoExc THEN s
    ELSE LET attempts == conf.post_deploy_get_power_state_retries + 1
             s1 == _wait_until_powered_off(s, env.reads, 1, attempts)
             \* except Exception as e: LOG.warning(...)
             s2 == IF s1.exc # NoExc
                   THEN Emit([s1 EXCEPT !.exc = NoExc],
                             [call |-> "LOG.warning", error |-> s1.exc])
                   ELSE s1
         IN node_power_action(s2, env, "reboot", REBOOT)

\* _prepare_extra_vars(host_list, variables); one host in every caller
_prepare_extra_vars(host, variables) ==
    LET extra_vars == [ironic_nodes |-> <<[name |-> host[1], ip |-> host[2], user |-> host[3]]>>]
    IN IF variables # Absent /\ DOMAIN variables[1] # {}
       THEN Update(extra_vars, variables[1])
       ELSE extra_vars

\* a variant of _run_playbook that tests tags where it should test notags
_run_playbook_tags_for_notags(s, env, name, extra_vars, key, tags, notags) ==
    IF s.exc # NoExc THEN s
    ELSE LET args == [playbook |-> name,
                      extra_vars |-> extra_vars,
                      tags |-> IF tags # Absent /\ tags[1] # <<>> THEN tags ELSE Absent,
                      skip_tags |-> IF tags # Absent /\ tags[1] # <<>> THEN notags ELSE Absent,
                      private_key |-> key]
             ok == env.fail # "run_playbook"
             s1 == Emit(s, [call |-> "run_playbook", args |-> args, ok |-> ok])
         IN IF ok THEN s1 ELSE Raise(s1, "InstanceDeployFailure")

\* _run_playbook(name, extra_vars, key, tags, notags); tags and notags are
\* optional lists; the command line gets a filter only for a non-empty list
_run_playbook(s, env, name, extra_vars, key, tags, notags) ==
    IF s.exc # NoExc THEN s
    ELSE LET args == [playbook |-> name,
                      extra_vars |-> extra_vars,
                      tags |-> IF tags # Absent /\ tags[1] # <<>> THEN tags ELSE Absent,
                      skip_tags |-> IF notags # Absent /\ notags[1] # <<>> THEN notags ELSE Absent,
                      private_key |-> key]
             ok == env.fail # "run_playbook"
             s1 == Emit(s, [call |-> "run_playbook", args |-> args, ok |-> ok])
         IN IF ok THEN s1 ELSE Raise(s1, "InstanceDeployFailure")

\* A value of instance_info is an integer (val) or a string (chars, a
\* sequence of one-character strings).
IntVal(n) == [type |-> "int", val |-> n, chars |-> <<>>]
StrVal(chars) == [type |-> "str", val |-> 0, chars |-> chars]

Digits == <<"0", "1", "2", "3", "4", "5", "6", "7", "8", "9">>

IsDigit(c) == \E d \in DOMAIN Digits : Digits[d] = c

DigitValue(c) == (CHOOSE d \in DOMAIN Digits : Digits[d] = c) - 1

\* the number written by the digits chars[i..], after the digits read so far
RECURSIVE DigitsValue(_, _, _)
DigitsValue(chars, i, acc) ==
    IF i > Len(chars) THEN acc
    ELSE DigitsValue(chars, i + 1, 10 * acc + DigitValue(chars[i]))

\* int(v): the integer itself, or the number a string of an optional sign
\* and digits writes; Absent when int() raises ValueError
int_of(v) ==
    IF v.type = "int" THEN Some(v.val)
    ELSE LET chars == v.chars
             signed == Len(chars) >= 1 /\ chars[1] \in {"-", "+"}
             body == IF signed THEN SubSeq(chars, 2, Len(chars)) ELSE chars
         IN IF body = <<>> \/ \E k \in DOMAIN body : ~IsDigit(body[k]) THEN Absent
            ELSE IF signed /\ chars[1] = "-" THEN Some(0 - DigitsValue(body, 1, 0))
            ELSE Some(DigitsValue(body, 1, 0))

\* strutils.bool_from_string(subject, strict=True), on the lowercased
\* subject: Absent when it raises ValueError
TRUE_STRINGS == {"1", "t", "true", "on", "y", "yes"}
FALSE_STRINGS == {"0", "f", "false", "off", "n", "no"}
bool_from_string(subject) ==
    IF subject \in TRUE_STRINGS THEN Some(TRUE)
    ELSE IF subject \in FALSE_STRINGS THEN Some(FALSE)
    ELSE Absent

\* urlparse.urlparse(url).scheme: what precedes the first ':' when it is
\* made of scheme characters
scheme(url) ==
    LET colon == FindFirst(url, {":"}, 1)
    IN IF colon > 1 /\ colon <= Len(url)
          /\ \A j \in 1..(colon - 1) : url[j] \in SchemeChars \cup {"s"}
       THEN SubSeq(url, 1, colon - 1)
       ELSE <<>>

\* a variant of the partition list that puts the ephemeral partition
\* before the swap partition
partitions_swap_last(root_gb, swap_mb, ephemeral_gb) ==
    <<[name |-> "root", size_mib |-> 1024 * root_gb, boot |-> "yes", swap |-> "no"]>>
    \o (IF ephemeral_gb # 0
        THEN <<[name |-> "ephemeral", size_mib |-> 1024 * ephemeral_gb,
                boot |-> "no", swap |-> "no"]>>
        ELSE <<>>)
    \o (IF swap_mb # 0
        THEN <<[name |-> "swap", size_mib |-> swap_mb, boot |-> "no", swap |-> "yes"]>>
        ELSE <<>>)

\* the list partitions of _parse_partitioning_info, from the coerced sizes
partitions_of(root_gb, swap_mb, ephemeral_gb) ==
    <<[name |-> "root", size_mib |-> 1024 * root_gb, boot |-> "yes", swap |-> "no"]>>
    \o (IF swap_mb # 0
        THEN <<[name |-> "swap", size_mib |-> swap_mb, boot |-> "no", swap |-> "yes"]>>
        ELSE <<>>)
    \o (IF ephemeral_gb # 0
        THEN <<[name |-> "ephemeral", size_mib |-> 1024 * ephemeral_gb,
                boot |-> "no", swap |-> "no"]>>
        ELSE <<>>)

\* _parse_partitioning_info(node): the variables of the partition plan
\* (i_info), or the exception raised.  A key instance_info does not have is
\* Absent; the write of an inline configdrive to its file is not recorded.
_parse_partitioning_info(n) ==
    LET info == n.instance_info
        root_gb == int_of(info.root_gb[1])
        swap_mb == IF info.swap_mb = Absent THEN Some(0) ELSE int_of(info.swap_mb[1])
        ephemeral_gb == IF info.ephemeral_gb = Absent THEN Some(0)
                        ELSE int_of(info.ephemeral_gb[1])
        ephemeral_format == dict_get(info, "ephemeral_format", "")
        preserve_ephemeral == bool_from_string(dict_get(info, "preserve_ephemeral", "false"))
        configdrive == dict_get(info, "configdrive", <<>>)
        \* i_info.pop() removes the sizes that went into a partition
        kept == (IF swap_mb[1] # 0 THEN <<>> ELSE [swap_mb |-> 0])
                @@ (IF ephemeral_gb[1] # 0
                    THEN [ephemeral_format |-> IF ephemeral_format = "" THEN "ext4"
                                               ELSE ephemeral_format,
                          preserve_ephemeral |-> IF preserve_ephemeral[1] THEN "yes" ELSE "no"]
                    ELSE [ephemeral_gb |-> 0])
                @@ (IF configdrive = <<>> THEN <<>>
                    ELSE IF scheme(configdrive) \in {<<"h", "t", "t", "p">>,
                                                     <<"h", "t", "t", "p", "s">>}
                    THEN [configdrive |-> configdrive]
                    ELSE [configdrive |-> <<"f", "i", "l", "e">>])
    IN IF info.root_gb = Absent
       THEN [exc |-> "MissingParameterValue", val |-> None]
       ELSE IF root_gb = Absent \/ swap_mb = Absent \/ ephemeral_gb = Absent
       THEN [exc |-> "InvalidParameterValue", val |-> None]
       ELSE IF ephemeral_gb[1] # 0 /\ preserve_ephemeral = Absent
       THEN [exc |-> "InvalidParameterValue", val |-> None]
       ELSE [exc |-> NoExc,
             val |-> kept @@ [ironic_partitions |->
                                  partitions_of(root_gb[1], swap_mb[1], ephemeral_gb[1])]]

\* _prepare_variables(task); computing mem_req asks the image service for
\* the image size, which may fail
_prepare_variables(s, env) ==
    IF s.exc # NoExc THEN s
    ELSE LET ok == env.fail # "prepare_variables"
             s1 == Emit(s, [call |-> "download_size", ok |-> ok])
         IN IF ok THEN Return(s1, [image |-> "image"]) ELSE Raise(s1, "ImageUnacceptable")

\* a variant of _deploy that sets the boot device before it runs the playbook
_deploy_boot_device_first(s, env, node_address) ==
    IF s.exc # NoExc THEN s
    ELSE LET n == s.node
             iwdi == n.driver_internal_info.is_whole_disk_image
             s1 == _prepare_variables(s, env)
             \* the rest of the sequence, given what _parse_partitioning_info
             \* returned or raised
             rest(part) ==
               LET
                 s2 == IF s1.exc = NoExc /\ part.exc # NoExc THEN Raise(s1, part.exc) ELSE s1
                 variables == IF ~Truthy(iwdi) THEN Update(s1.val, part.val) ELSE s1.val
                 s3 == _parse_ansible_driver_info(s2, "deploy")
                 pb == s3.val
                 node_list == <<n.uuid, node_address, pb.user>>
                 extra_vars == _prepare_extra_vars(node_list, Some(variables))
                 notags == IF Truthy(iwdi) THEN <<"parted">> ELSE <<>>
                 s4 == node_set_boot_device(s3, env, "disk", TRUE)
                 s5 == IF s4.exc # NoExc THEN s4
                       ELSE _run_playbook(s4, env, pb.playbook, extra_vars, pb.key,
                                          Absent, Some(notags))
                 s6 == _reboot_and_finish_deploy(s5, env)
               IN clean_up_ramdisk(s6, env)
         IN CHOOSE r \in {rest(part) :
                          part \in {IF ~Truthy(iwdi) THEN _parse_partitioning_info(n)
                                    ELSE [exc |-> NoExc, val |-> <<>>]}} : TRUE

\* _deploy(task, node_address)
_deploy(s, env, node_address) ==
    IF s.exc # NoExc THEN s
    ELSE LET n == s.node
             iwdi == n.driver_internal_info.is_whole_disk_image
             s1 == _prepare_variables(s, env)
             \* the rest of the sequence, given what _parse_partitioning_info
             \* returned or raised
             rest(part) ==
               LET
                 s2 == IF s1.exc = NoExc /\ part.exc # NoExc THEN Raise(s1, part.exc) ELSE s1
                 variables == IF ~Truthy(iwdi) THEN Update(s1.val, part.val) ELSE s1.val
                 s3 == _parse_ansible_driver_info(s2, "deploy")
                 pb == s3.val
                 node_list == <<n.uuid, node_address, pb.user>>
                 extra_vars == _prepare_extra_vars(node_list, Some(variables))
                 notags == IF Truthy(iwdi) THEN <<"parted">> ELSE <<>>
                 s4 == IF s3.exc # NoExc THEN s3
                       ELSE _run_playbook(s3, env, pb.playbook, extra_vars, pb.key,
                                          Absent, Some(notags))
                 s5 == node_set_boot_device(s4, env, "disk", TRUE)
                 s6 == _reboot_and_finish_deploy(s5, env)
               IN clean_up_ramdisk(s6, env)
         IN CHOOSE r \in {rest(part) :
                          part \in {IF ~Truthy(iwdi) THEN _parse_partitioning_info(n)
                                    ELSE [exc |-> NoExc, val |-> <<>>]}} : TRUE

\* a variant of deploy that does not look at use_ramdisk_callback
deploy_no_callback(s, env) ==
    LET s1 == node_power_action(s, env, "power_action", REBOOT)
        s2 == _get_node_ip(s1, env.ips)
        s3 == IF s2.exc # NoExc THEN s2 ELSE _deploy(s2, env, s2.val)
    IN IF s3.exc # NoExc THEN s3 ELSE Return(s3, DEPLOYDONE)

\* AnsibleDeploy.deploy(task)
deploy(s, env) ==
    LET s1 == node_power_action(s, env, "power_action", REBOOT)
    IN IF s1.exc # NoExc THEN s1
       ELSE IF conf.use_ramdisk_callback THEN Return(s1, DEPLOYWAIT)
       ELSE LET s2 == _get_node_ip(s1, env.ips)
                s3 == IF s2.exc # NoExc THEN s2 ELSE _deploy(s2, env, s2.val)
            IN IF s3.exc # NoExc THEN s3 ELSE Return(s3, DEPLOYDONE)

\* a variant of the choice of a step's priority that tests the override
\* for truth, so that an override of 0 is passed over
priority_if_truthy(new_priority, params) ==
    IF new_priority # Absent /\ new_priority[1] # 0 THEN new_priority
    ELSE IF "priority" \in DOMAIN params THEN Some(params.priority)
    ELSE Absent

\* new_priority if new_priority is not None else params['priority']; Absent
\* when params['priority'] is read and the key is missing (KeyError)
priority_of(new_priority, params) ==
    IF new_priority # Absent THEN new_priority
    ELSE IF "priority" \in DOMAIN params THEN Some(params.priority)
    ELSE Absent

\* the loop of _get_clean_steps over the entries of the loaded document,
\* from entry i on, with the steps built so far; an entry that is not a
\* mapping has no get(), and a mapping without the key read raises KeyError
RECURSIVE clean_steps_loop(_, _, _, _, _)
clean_steps_loop(internal_steps, i, interface, override, steps) ==
    IF i > Len(internal_steps) THEN [exc |-> NoExc, val |-> steps]
    ELSE IF internal_steps[i].type # "map" THEN [exc |-> "AttributeError", val |-> None]
    ELSE LET params == internal_steps[i].val
             name == dict_get(params, "name", None)
             new_priority == dict_get(override, name, Absent)
             priority == priority_of(new_priority, params)
             step == [step |-> name,
                      priority |-> priority[1],
                      abortable |-> dict_get(params, "abortable", FALSE),
                      argsinfo |-> dict_get(params, "argsinfo", Absent),
                      interface |-> params.interface,
                      tags |-> dict_get(params, "tags", <<>>)]
         IN IF "interface" \notin DOMAIN params THEN [exc |-> "KeyError", val |-> None]
            ELSE IF interface # Absent /\ interface[1] # params.interface
                 THEN clean_steps_loop(internal_steps, i + 1, interface, override, steps)
            ELSE IF priority = Absent THEN [exc |-> "KeyError", val |-> None]
            ELSE clean_steps_loop(internal_steps, i + 1, interface, override,
                                  Append(steps, step))

\* _get_clean_steps(task, interface, override_priorities); file is what
\* open() and yaml.safe_load() meet at the path of the clean-steps file: no
\* file, text that is not YAML, or the document loaded (nothing, a number,
\* a mapping, a list).  Only open() and safe_load() are inside the try.
_get_clean_steps(file, interface, override_priorities) ==
    LET override == IF override_priorities = Absent THEN EmptyDict
                    ELSE override_priorities[1]
        internal_steps == IF file.type = "dict"
                          THEN [k \in DOMAIN file.keys |-> [type |-> "str"]]
                          ELSE file.items
    IN IF file.type \in {"missing", "unparsable"}
       THEN [exc |-> "NodeCleaningFailure", val |-> None]
       ELSE IF file.type \in {"none", "int"} THEN [exc |-> "TypeError", val |-> None]
       ELSE clean_steps_loop(internal_steps, 1, interface, override, <<>>)

\* AnsibleDeploy.get_clean_steps(task); erase_devices_priority is
\* CONF.deploy.erase_devices_priority, None when it is not configured
get_clean_steps(file, erase_devices_priority) ==
    _get_clean_steps(file, Some("deploy"),
                     Some([erase_devices |-> erase_devices_priority]))

\* _build_ramdisk_options(node)
_build_ramdisk_options(n) == [deployment_id |-> n.uuid, ironic_api_url |-> "api_url"]

\* a variant of prepare_cleaning that saves the resolved address only after
\* the clean playbook has run
prepare_cleaning_save_last(s, env) ==
    LET n == s.node
        s1 == prepare_cleaning_ports(s, env)
        use_callback == conf.use_ramdisk_callback
        boot_opt == IF use_callback THEN _build_ramdisk_options(n) ELSE <<>>
        s2 == prepare_ramdisk(s1, env, boot_opt)
        s3 == node_power_action(s2, env, "power_action", REBOOT)
        s4 == _get_node_ip(s3, env.ips)
        ip_addr == s4.val
        s6 == _parse_ansible_driver_info(s4, "clean")
        pb == s6.val
        extra_vars == _prepare_extra_vars(<<n.uuid, ip_addr, pb.user>>, Absent)
        s7 == IF s6.exc # NoExc THEN s6
              ELSE _run_playbook(s6, env, pb.playbook, extra_vars, pb.key,
                                 Some(<<"wait">>), Absent)
        s8 == IF s7.exc # NoExc THEN s7
              ELSE node_save([s7 EXCEPT !.node.driver_internal_info.ansible_cleaning_ip =
                                            Some(ip_addr)], env)
    IN IF s3.exc # NoExc THEN s3
       ELSE IF use_callback THEN Return(s3, CLEANWAIT)
       ELSE IF s8.exc # NoExc THEN s8
       ELSE Return(s8, None)

\* AnsibleDeploy.prepare_cleaning(task)
prepare_cleaning(s, env) ==
    LET n == s.node
        s1 == prepare_cleaning_ports(s, env)
        use_callback == conf.use_ramdisk_callback
        boot_opt == IF use_callback THEN _build_ramdisk_options(n) ELSE <<>>
        s2 == prepare_ramdisk(s1, env, boot_opt)
        s3 == node_power_action(s2, env, "power_action", REBOOT)
        s4 == _get_node_ip(s3, env.ips)
        ip_addr == s4.val
        s5 == IF s4.exc # NoExc THEN s4
              ELSE node_save([s4 EXCEPT !.node.driver_internal_info.ansible_cleaning_ip =
                                            Some(ip_addr)], env)
        s6 == _parse_ansible_driver_info(s5, "clean")
        pb == s6.val
        extra_vars == _prepare_extra_vars(<<n.uuid, ip_addr, pb.user>>, Absent)
        s7 == IF s6.exc # NoExc THEN s6
              ELSE _run_playbook(s6, env, pb.playbook, extra_vars, pb.key,
                                 Some(<<"wait">>), Absent)
    IN IF s3.exc # NoExc THEN s3
       ELSE IF use_callback THEN Return(s3, CLEANWAIT)
       ELSE IF s7.exc # NoExc THEN s7
       ELSE Return(s7, None)

\* a variant of execute_clean_step that does not require the stored address
execute_clean_step_any_ip(s, env, step) ==
    LET n == s.node
        s1 == _parse_ansible_driver_info(s, "clean")
        pb == s1.val
        ip_addr == n.driver_internal_info.ansible_cleaning_ip
        extra_vars == _prepare_extra_vars(<<n.uuid, ip_addr, pb.user>>, Absent)
        s2 == IF s1.exc # NoExc THEN s1
              ELSE _run_playbook(s1, env, pb.playbook, extra_vars, pb.key,
                                 Some(step.tags), Absent)
    IN IF s2.exc # NoExc THEN s2 ELSE Return(s2, None)

\* AnsibleDeploy.execute_clean_step(task, step); a key that is missing from
\* driver_internal_info (KeyError) is an Absent ansible_cleaning_ip
execute_clean_step(s, env, step) ==
    LET n == s.node
        s1 == _parse_ansible_driver_info(s, "clean")
        pb == s1.val
        stored == n.driver_internal_info.ansible_cleaning_ip
        s2 == IF s1.exc = NoExc /\ stored = Absent
              THEN Raise(s1, "NodeCleaningFailure")
              ELSE s1
        ip_addr == stored[1]
        extra_vars == _prepare_extra_vars(<<n.uuid, ip_addr, pb.user>>, Absent)
        s3 == IF s2.exc # NoExc THEN s2
              ELSE _run_playbook(s2, env, pb.playbook, extra_vars, pb.key,
                                 Some(step.tags), Absent)
    IN IF s3.exc # NoExc THEN s3 ELSE Return(s3, None)

\* deploy_utils.tear_down_cleaning_ports(task)
tear_down_cleaning_ports(s, env) ==
    IF s.exc # NoExc THEN s
    ELSE LET ok == env.fail # "tear_down_cleaning_ports"
             s1 == Emit(s, [call |-> "tear_down_cleaning_ports", ok |-> ok])
         IN IF ok THEN s1 ELSE Raise(s1, "NodeCleaningFailure")

\* a variant of tear_down_cleaning that leaves ansible_cleaning_ip in place
tear_down_cleaning_keep_ip(s, env) ==
    LET s1 == node_save(s, env)
        s2 == node_power_action(s1, env, "power_action", POWER_OFF)
        s3 == tear_down_cleaning_ports(clean_up_ramdisk(s2, env), env)
    IN IF s3.exc # NoExc THEN s3 ELSE Return(s3, None)

\* AnsibleDeploy.tear_down_cleaning(task)
tear_down_cleaning(s, env) ==
    LET s1 == node_save([s EXCEPT !.node.driver_internal_info.ansible_cleaning_ip = Absent],
                        env)
        s2 == node_power_action(s1, env, "power_action", POWER_OFF)
        s3 == tear_down_cleaning_ports(clean_up_ramdisk(s2, env), env)
    IN IF s3.exc # NoExc THEN s3 ELSE Return(s3, None)

\* manager_utils.set_node_cleaning_steps(task)
set_node_cleaning_steps(s, env) ==
    IF s.exc # NoExc THEN s
    ELSE LET ok == env.fail # "set_node_cleaning_steps"
             s1 == Emit(s, [call |-> "set_node_cleaning_steps", ok |-> ok])
         IN IF ok THEN s1 ELSE Raise(s1, "NodeCleaningFailure")

\* rpc.get_topic_for(task.node)
get_topic_for(s, env) ==
    IF s.exc # NoExc THEN s
    ELSE LET ok == env.fail # "get_topic_for"
             s1 == Emit(s, [call |-> "get_topic_for", ok |-> ok])
         IN IF ok THEN s1 ELSE Raise(s1, "NoValidHost")

\* task.release_resources(): gives the exclusive node lock back
release_resources(s, env) ==
    IF s.exc # NoExc THEN s
    ELSE LET ok == env.fail # "release_resources"
             s1 == Emit(s, [call |-> "release_resources", ok |-> ok])
         IN IF ok THEN [s1 EXCEPT !.locked = FALSE] ELSE Raise(s1, "Exception")

\* rpc.continue_node_clean(context, uuid, topic=topic)
continue_node_clean(s, env) ==
    IF s.exc # NoExc THEN s
    ELSE LET ok == env.fail # "continue_node_clean"
             s1 == Emit(s, [call |-> "continue_node_clean", ok |-> ok])
         IN IF ok THEN [s1 EXCEPT !.rpcs = @ + 1] ELSE Raise(s1, "MessagingTimeout")

\* a variant of _notify_conductor_resume_clean that sends the RPC while the
\* task still holds the lock
_notify_before_release(s, env) ==
    release_resources(continue_node_clean(get_topic_for(s, env), env), env)

\* _notify_conductor_resume_clean(task)
_notify_conductor_resume_clean(s, env) ==
    continue_node_clean(release_resources(get_topic_for(s, env), env), env)

\* deploy_utils.set_failed_state(task, error): the orchestrator's handler
\* for a failed deploy
set_failed_state(s, error) ==
    Save([Emit(s, [call |-> "set_failed_state", error |-> error])
          EXCEPT !.node.provision_state = DEPLOYFAIL, !.node.last_error = Some(error)])

\* manager_utils.cleaning_error_handler(task, error): the orchestrator's
\* handler for a failed cleaning
cleaning_error_handler(s, error) ==
    Save([Emit(s, [call |-> "cleaning_error_handler", error |-> error])
          EXCEPT !.node.provision_state = CLEANFAIL, !.node.last_error = Some(error)])

\* except Exception as e: the handler body runs with the exception caught
Caught(s) == [s EXCEPT !.exc = NoExc]

\* a variant of the DEPLOYWAIT branch that lets the failure of the deploy
\* sequence out
heartbeat_deploywait_reraise(s, env, address) ==
    LET s1 == process_event(s, "resume")
        s2 == _deploy(s1, env, address)
    IN IF s1.exc # NoExc THEN s1
       ELSE IF s2.exc # NoExc
            THEN Raise(set_failed_state(Caught(s2), <<"Deploy failed", s2.exc>>), s2.exc)
       ELSE process_event(s2, "done")

\* a variant of the DEPLOYWAIT branch that starts the deploy sequence
\* without processing 'resume'
heartbeat_deploywait_no_resume(s, env, address) ==
    LET s2 == _deploy(s, env, address)
    IN IF s2.exc # NoExc
       THEN set_failed_state(Caught(s2), <<"Deploy failed", s2.exc>>)
       ELSE process_event(s2, "done")

\* heartbeat, the branch of a node found in DEPLOYWAIT
heartbeat_deploywait(s, env, address) ==
    LET s1 == process_event(s, "resume")
        s2 == _deploy(s1, env, address)
    IN IF s1.exc # NoExc THEN s1
       ELSE IF s2.exc # NoExc
            THEN set_failed_state(Caught(s2), <<"Deploy failed", s2.exc>>)
       ELSE process_event(s2, "done")

\* heartbeat, the branch of a node found in CLEANWAIT
heartbeat_cleanwait(s, env, address) ==
    LET s1 == node_save([s EXCEPT !.node.driver_internal_info.ansible_cleaning_ip =
                                      Some(address)], env)
        s2 == _notify_conductor_resume_clean(set_node_cleaning_steps(s1, env), env)
    IN IF s1.exc # NoExc THEN s1
       ELSE IF s2.exc # NoExc
            THEN cleaning_error_handler(Caught(s2), <<"cleaning failed", s2.exc>>)
       ELSE s2

\* heartbeat, the branch of a node found in any other state
heartbeat_invalid_state(s) ==
    Emit(s, [call |-> "LOG.warning", error |-> "invalid provision state"])

\* a variant of heartbeat that takes every state but DEPLOYWAIT for CLEANWAIT
heartbeat_else_clean(s, env, kwargs) ==
    IF kwargs.callback_url = Absent THEN Raise(s, "MissingParameterValue")
    ELSE LET address == address_of(kwargs.callback_url[1])
             s1 == IF s.node.provision_state = DEPLOYWAIT
                   THEN heartbeat_deploywait(s, env, address)
                   ELSE heartbeat_cleanwait(s, env, address)
         IN IF s1.exc # NoExc THEN s1 ELSE Return(s1, None)

\* AnsibleVendor.heartbeat(task, **kwargs)
heartbeat(s, env, kwargs) ==
    IF kwargs.callback_url = Absent THEN Raise(s, "MissingParameterValue")
    ELSE LET address == address_of(kwargs.callback_url[1])
             state == s.node.provision_state
             s1 == IF state = DEPLOYWAIT THEN heartbeat_deploywait(s, env, address)
                   ELSE IF state = CLEANWAIT THEN heartbeat_cleanwait(s, env, address)
                   ELSE heartbeat_invalid_state(s)
         IN IF s1.exc # NoExc THEN s1 ELSE Return(s1, None)

-----------------------------------------------------------------------------
(* The Intel Node Manager command codec                                     *)
(* (ironic_staging_drivers/intel_nm/nm_commands.py).  A command and a raw   *)
(* response are lists of strings such as '0x2E'; a string is a sequence of  *)
(* one-character strings, formatted and parsed digit by digit.              *)

INTEL_NM_DOMAINS == [platform |-> 0, cpu |-> 1, memory |-> 2, protection |-> 3, io |-> 4]

INTEL_NM_TRIGGERS == [none |-> 0, temperature |-> 1, power |-> 2, reset |-> 3, boot |-> 4]

INTEL_NM_CPU_CORRECTION == [auto |-> 0, unagressive |-> 32, aggressive |-> 64]

INTEL_NM_STORAGE == [persistent |-> 0, volatile |-> 128]

INTEL_NM_ACTIONS == [alert |-> 0, shutdown |-> 1]

INTEL_NM_POWER_DOMAIN == [primary |-> 0, secondary |-> 128]

\* collections.OrderedDict: the days in table order, and their bits
DAY_ORDER == <<"monday", "tuesday", "wednesday", "thursday", "friday", "saturday", "sunday">>

INTEL_NM_DAYS == [monday |-> 1, tuesday |-> 2, wednesday |-> 4, thursday |-> 8,
                  friday |-> 16, saturday |-> 32, sunday |-> 64]

\* _reverse_dict(d)
_reverse_dict(d) ==
    [v \in {d[k] : k \in DOMAIN d} |-> CHOOSE k \in DOMAIN d : d[k] = v]

INTEL_NM_DOMAINS_REV == _reverse_dict(INTEL_NM_DOMAINS)
INTEL_NM_TRIGGERS_REV == _reverse_dict(INTEL_NM_TRIGGERS)
INTEL_NM_CPU_CORRECTION_REV == _reverse_dict(INTEL_NM_CPU_CORRECTION)
INTEL_NM_STORAGE_REV == _reverse_dict(INTEL_NM_STORAGE)
INTEL_NM_ACTIONS_REV == _reverse_dict(INTEL_NM_ACTIONS)
INTEL_NM_POWER_DOMAIN_REV == _reverse_dict(INTEL_NM_POWER_DOMAIN)

INTEL_NM_NETFN == <<"0", "x", "2", "E">>
INTEL_NM_ID == << <<"0", "x", "5", "7">>, <<"0", "x", "0", "1">>, <<"0", "x", "0", "0">> >>
INTEL_NM_POLICY_CONTROL == <<"0", "x", "C", "0">>
INTEL_NM_POLICY_SET == <<"0", "x", "C", "1">>
INTEL_NM_POLICY_GET == <<"0", "x", "C", "2">>
INTEL_NM_SUSPEND_GET == <<"0", "x", "C", "6">>
INTEL_NM_CAPABILITIES_GET == <<"0", "x", "C", "9">>
INTEL_NM_VERSION_GET == <<"0", "x", "C", "A">>
INTEL_NM_SUSPEND_SET == <<"0", "x", "C", "5">>

\* a & b and a | b on non-negative integers
RECURSIVE BitAnd(_, _)
BitAnd(a, b) ==
    IF a = 0 \/ b = 0 THEN 0
    ELSE (a % 2) * (b % 2) + 2 * BitAnd(a \div 2, b \div 2)

RECURSIVE BitOr(_, _)
BitOr(a, b) ==
    IF a = 0 THEN b
    ELSE IF b = 0 THEN a
    ELSE (IF a % 2 = 1 \/ b % 2 = 1 THEN 1 ELSE 0) + 2 * BitOr(a \div 2, b \div 2)

UpperHex == Digits \o <<"A", "B", "C", "D", "E", "F">>
LowerHex == Digits \o <<"a", "b", "c", "d", "e", "f">>

\* the hexadecimal digits of n >= 0 in the given alphabet, without padding
RECURSIVE HexDigits(_, _)
HexDigits(n, alphabet) ==
    IF n < 16 THEN <<alphabet[n + 1]>>
    ELSE HexDigits(n \div 16, alphabet) \o <<alphabet[(n % 16) + 1]>>

\* '{:02X}' and '{:02x}': at least two digits, more when n > 255
Pad2(digits) == IF Len(digits) < 2 THEN <<"0">> \o digits ELSE digits

\* _hex(x), for x >= 0
_hex(x) == <<"0", "x">> \o Pad2(HexDigits(x, UpperHex))

IsHexDigit(c) == \E d \in 1..16 : UpperHex[d] = c \/ LowerHex[d] = c

HexDigitValue(c) == (CHOOSE d \in 1..16 : UpperHex[d] = c \/ LowerHex[d] = c) - 1

RECURSIVE HexValue(_, _, _)
HexValue(chars, i, acc) ==
    IF i > Len(chars) THEN acc
    ELSE HexValue(chars, i + 1, 16 * acc + HexDigitValue(chars[i]))

\* int(x, 16): an optional '0x' or '0X', then hexadecimal digits of either
\* case; Absent when int() raises ValueError
int16(x) ==
    LET prefixed == Len(x) >= 2 /\ x[1] = "0" /\ x[2] \in {"x", "X"}
        body == IF prefixed THEN SubSeq(x, 3, Len(x)) ELSE x
    IN IF body = <<>> \/ \E k \in DOMAIN body : ~IsHexDigit(body[k]) THEN Absent
       ELSE Some(HexValue(body, 1, 0))

\* _raw_to_int(raw_data): the list of integers, Absent on ValueError
_raw_to_int(raw_data) ==
    IF \E k \in DOMAIN raw_data : int16(raw_data[k]) = Absent THEN Absent
    ELSE Some([k \in DOMAIN raw_data |-> int16(raw_data[k])[1]])

\* the size bytes of n, least significant first (struct '<')
LittleEndian(n, size) == [k \in 1..size |-> (n \div (256 ^ (k - 1))) % 256]

\* the unsigned integer of bytes given least significant first
RECURSIVE FromLittleEndian(_)
FromLittleEndian(bytes) ==
    IF bytes = <<>> THEN 0 ELSE bytes[1] + 256 * FromLittleEndian(Tail(bytes))

\* struct.pack('<HIHH', h1, i, h2, h3): Absent when a value does not fit
\* its field (struct.error).  The integers of the model are below 2^31, so
\* of the 4-byte field only the lower bound can be missed.
pack_HIHH(h1, i, h2, h3) ==
    IF \/ \E h \in {h1, h2, h3} : h < 0 \/ h >= 256 ^ 2
       \/ i < 0
    THEN Absent
    ELSE Some(LittleEndian(h1, 2) \o LittleEndian(i, 4) \o LittleEndian(h2, 2)
              \o LittleEndian(h3, 2))

\* struct.unpack('<HIHH', data): Absent unless data has exactly 10 bytes
unpack_HIHH(data) ==
    IF Len(data) # 10 THEN Absent
    ELSE Some(<<FromLittleEndian(SubSeq(data, 1, 2)), FromLittleEndian(SubSeq(data, 3, 6)),
                FromLittleEndian(SubSeq(data, 7, 8)), FromLittleEndian(SubSeq(data, 9, 10))>>)

\* _hexarray(data): binascii.hexlify() gives two lowercase digits per byte
_hexarray(data) == [k \in DOMAIN data |-> <<"0", "x">> \o Pad2(HexDigits(data[k], LowerHex))]

\* _create_command_head(command)
_create_command_head(command) == <<INTEL_NM_NETFN, command>> \o INTEL_NM_ID

\* _days_compose(days) keeping only the last day of the list
_days_compose_last(days) ==
    IF days = <<>> THEN 0 ELSE INTEL_NM_DAYS[days[Len(days)]]

\* _days_compose(days)
RECURSIVE _days_compose(_)
_days_compose(days) ==
    IF days = <<>> THEN 0
    ELSE BitOr(_days_compose(SubSeq(days, 1, Len(days) - 1)), INTEL_NM_DAYS[days[Len(days)]])

\* the days of a list whose bit is set in pattern, in the order of the list
RECURSIVE SelectDays(_, _)
SelectDays(days, pattern) ==
    IF days = <<>> THEN <<>>
    ELSE (IF BitAnd(pattern, INTEL_NM_DAYS[Head(days)]) # 0 THEN <<Head(days)>> ELSE <<>>)
         \o SelectDays(Tail(days), pattern)

\* _days_parse(pattern) looking at the days monday..friday only
_days_parse_weekdays(pattern) == SelectDays(SubSeq(DAY_ORDER, 1, 5), pattern)

\* _days_parse(pattern)
_days_parse(pattern) == SelectDays(DAY_ORDER, pattern)

\* _add_domain_policy_id(cmd, data): the two elements appended
_add_domain_policy_id(data) ==
    <<_hex(INTEL_NM_DOMAINS[data.domain_id]), _hex(data.policy_id)>>

\* a target_limit that is an int, and one that is a dict
TargetInt(n) == [type |-> "int", val |-> n, boot_mode |-> "power", cores_disabled |-> 0]
TargetDict(boot_mode, cores_disabled) ==
    [type |-> "dict", val |-> 0, boot_mode |-> boot_mode, cores_disabled |-> cores_disabled]

\* set_policy(policy), for a policy whose names are keys of the tables: the
\* command, or struct.error when a value does not fit its field.  In
\* Python `a | 0x10 if c else 0x00` is `(a | 0x10) if c else 0x00`.
set_policy(policy) ==
    LET cpu_power_correction == dict_get(policy, "cpu_power_correction", "auto")
        storage == dict_get(policy, "storage", "persistent")
        trigger_limit == IF policy.policy_trigger \in {"none", "boot"} THEN 0
                         ELSE policy.trigger_limit
        byte0 == IF policy.enable THEN BitOr(INTEL_NM_DOMAINS[policy.domain_id], 16) ELSE 0
        byte2 == BitOr(BitOr(BitOr(INTEL_NM_TRIGGERS[policy.policy_trigger],
                                   INTEL_NM_CPU_CORRECTION[cpu_power_correction]),
                             INTEL_NM_STORAGE[storage]), 16)
        byte3 == BitOr(INTEL_NM_ACTIONS[policy.action],
                       INTEL_NM_POWER_DOMAIN[policy.power_domain])
        limit == IF policy.target_limit.type = "int" THEN policy.target_limit.val
                 ELSE BitOr(IF policy.target_limit.boot_mode = "power" THEN 0 ELSE 1,
                            policy.target_limit.cores_disabled * 2)
        policy_values == pack_HIHH(limit, policy.correction_time, trigger_limit,
                                   policy.reporting_period)
    IN IF policy_values = Absent THEN [exc |-> "struct.error", val |-> None]
       ELSE [exc |-> NoExc,
             val |-> _create_command_head(INTEL_NM_POLICY_SET)
                     \o <<_hex(byte0), _hex(policy.policy_id), _hex(byte2), _hex(byte3)>>
                     \o _hexarray(policy_values[1])]

\* what _handle_parsing_error raises: IPMIFailure with one of three messages
WRONG_LENGTH == "IPMIFailure: has wrong length."
CORRUPTED == "IPMIFailure: is corrupted."
NOT_CONVERTED == "IPMIFailure: cannot be converted."

\* parse_policy(raw_data) under _handle_parsing_error; raw_int[k] of the
\* code is ints[k + 1] here
parse_policy(raw_data) ==
    LET raw_int == _raw_to_int(raw_data)
        ints == raw_int[1]
        domain == BitAnd(ints[4], 15)
        trigger == BitAnd(ints[5], 15)
        correction == BitAnd(ints[5], 96)
        tail == SubSeq(ints, 7, Len(ints))
        policy_values == unpack_HIHH(tail)
        fail(e) == [exc |-> e, val |-> None]
    IN IF raw_int = Absent THEN fail(NOT_CONVERTED)
       ELSE IF Len(ints) < 4 THEN fail(WRONG_LENGTH)
       ELSE IF domain \notin DOMAIN INTEL_NM_DOMAINS_REV THEN fail(CORRUPTED)
       ELSE IF Len(ints) < 5 THEN fail(WRONG_LENGTH)
       ELSE IF trigger \notin DOMAIN INTEL_NM_TRIGGERS_REV THEN fail(CORRUPTED)
       ELSE IF correction \notin DOMAIN INTEL_NM_CPU_CORRECTION_REV THEN fail(CORRUPTED)
       ELSE IF Len(ints) < 6 THEN fail(WRONG_LENGTH)
       ELSE IF \E k \in DOMAIN tail : tail[k] > 255 THEN fail(NOT_CONVERTED)
       ELSE IF policy_values = Absent THEN fail(WRONG_LENGTH)
       ELSE [exc |-> NoExc,
             val |-> [domain_id |-> INTEL_NM_DOMAINS_REV[domain],
                      enabled |-> BitAnd(ints[4], 16) # 0,
                      per_domain_enabled |-> BitAnd(ints[4], 32) # 0,
                      global_enabled |-> BitAnd(ints[4], 64) # 0,
                      created_by_nm |-> BitAnd(ints[4], 128) = 0,
                      policy_trigger |-> INTEL_NM_TRIGGERS_REV[trigger],
                      power_policy |-> BitAnd(ints[5], 16) # 0,
                      cpu_power_correction |-> INTEL_NM_CPU_CORRECTION_REV[correction],
                      storage |-> INTEL_NM_STORAGE_REV[BitAnd(ints[5], 128)],
                      action |-> INTEL_NM_ACTIONS_REV[BitAnd(ints[6], 1)],
                      power_domain |-> INTEL_NM_POWER_DOMAIN_REV[BitAnd(ints[6], 128)],
                      target_limit |-> policy_values[1][1],
                      correction_time |-> policy_values[1][2],
                      trigger_limit |-> policy_values[1][3],
                      reporting_period |-> policy_values[1][4]]]

\* _handle_parsing_error turning every KeyError into 'has wrong length'
_handle_parsing_error_key_as_length(r) ==
    IF r.exc \in {"IndexError", "struct.error", "KeyError"} THEN [r EXCEPT !.exc = WRONG_LENGTH]
    ELSE IF r.exc = "ValueError" THEN [r EXCEPT !.exc = NOT_CONVERTED]
    ELSE r

\* _handle_parsing_error(func): what the wrapper makes of what func returned
\* or raised; an exception of another class passes through
_handle_parsing_error(r) ==
    IF r.exc \in {"IndexError", "struct.error"} THEN [r EXCEPT !.exc = WRONG_LENGTH]
    ELSE IF r.exc = "KeyError" THEN [r EXCEPT !.exc = CORRUPTED]
    ELSE IF r.exc = "ValueError" THEN [r EXCEPT !.exc = NOT_CONVERTED]
    ELSE r

\* struct.unpack('<HHIIHH', data): Absent unless data has exactly 16 bytes
unpack_HHIIHH(data) ==
    IF Len(data) # 16 THEN Absent
    ELSE Some(<<FromLittleEndian(SubSeq(data, 1, 2)), FromLittleEndian(SubSeq(data, 3, 4)),
                FromLittleEndian(SubSeq(data, 5, 8)), FromLittleEndian(SubSeq(data, 9, 12)),
                FromLittleEndian(SubSeq(data, 13, 14)),
                FromLittleEndian(SubSeq(data, 15, 16))>>)

\* the body of parse_capabilities(raw_data), raising what Python raises;
\* raw_int[k] of the code is ints[k + 1] here and raw_int[4:20] is bytes
parse_capabilities_body(raw_data) ==
    LET raw_int == _raw_to_int(raw_data)
        ints == raw_int[1]
        bytes == SubSeq(ints, 5, IF Len(ints) < 20 THEN Len(ints) ELSE 20)
        capabilities_values == unpack_HHIIHH(bytes)
        domain == BitAnd(ints[21], 15)
        raise(e) == [exc |-> e, val |-> None]
    IN IF raw_int = Absent THEN raise("ValueError")
       ELSE IF Len(ints) < 4 THEN raise("IndexError")
       ELSE IF \E k \in DOMAIN bytes : bytes[k] > 255 THEN raise("ValueError")
       ELSE IF capabilities_values = Absent THEN raise("struct.error")
       ELSE IF Len(ints) < 21 THEN raise("IndexError")
       ELSE IF domain \notin DOMAIN INTEL_NM_DOMAINS_REV THEN raise("KeyError")
       ELSE [exc |-> NoExc,
             val |-> [max_policies |-> ints[4],
                      max_limit_value |-> capabilities_values[1][1],
                      min_limit_value |-> capabilities_values[1][2],
                      min_correction_time |-> capabilities_values[1][3],
                      max_correction_time |-> capabilities_values[1][4],
                      min_reporting_period |-> capabilities_values[1][5],
                      max_reporting_period |-> capabilities_values[1][6],
                      domain_id |-> INTEL_NM_DOMAINS_REV[domain],
                      power_domain |-> INTEL_NM_POWER_DOMAIN_REV[BitAnd(ints[21], 128)]]]

\* parse_capabilities(raw_data) as decorated
parse_capabilities(raw_data) == _handle_parsing_error(parse_capabilities_body(raw_data))

\* str(n) for n >= 0
RECURSIVE str(_)
str(n) == IF n < 10 THEN <<Digits[n + 1]>> ELSE str(n \div 10) \o <<Digits[(n % 10) + 1]>>

VERSIONS == (1 :> "1.0") @@ (2 :> "1.5") @@ (3 :> "2.0") @@ (4 :> "2.5") @@ (5 :> "3.0")

IPMI_VERSIONS == (1 :> "1.0") @@ (2 :> "2.0") @@ (3 :> "3.0")

\* the body of parse_version(raw_data), raising what Python raises
parse_version_body(raw_data) ==
    LET raw_int == _raw_to_int(raw_data)
        ints == raw_int[1]
    IN IF raw_int = Absent THEN [exc |-> "ValueError", val |-> None]
       ELSE IF Len(ints) < 8 THEN [exc |-> "IndexError", val |-> None]
       ELSE [exc |-> NoExc,
             val |-> [nm |-> dict_get(VERSIONS, ints[4], "unknown"),
                      ipmi |-> dict_get(IPMI_VERSIONS, ints[5], "unknown"),
                      patch |-> str(ints[6]),
                      firmware |-> str(ints[7]) \o <<".">> \o str(ints[8])]]

\* parse_version(raw_data) as decorated
parse_version(raw_data) == _handle_parsing_error(parse_version_body(raw_data))

\* the policy dict as set_policy leaves it: the function writes its
\* defaults and the forced trigger_limit into the dict it was given
set_policy_defaults(policy) ==
    [k \in DOMAIN policy \cup {"cpu_power_correction", "storage"} |->
        IF k = "trigger_limit" /\ policy.policy_trigger \in {"none", "boot"} THEN 0
        ELSE IF k \in DOMAIN policy THEN policy[k]
        ELSE IF k = "cpu_power_correction" THEN "auto"
        ELSE "persistent"]

\* get_capabilities(data)
get_capabilities(data) ==
    [exc |-> NoExc,
     val |-> _create_command_head(INTEL_NM_CAPABILITIES_GET)
             \o <<_hex(INTEL_NM_DOMAINS[data.domain_id]),
                   _hex(BitOr(BitOr(INTEL_NM_TRIGGERS[data.policy_trigger], 16),
                              INTEL_NM_POWER_DOMAIN[data.power_domain]))>>]

\* control_policies(control_data); with a scope that is none of the three
\* the local variable flags is read before it is assigned
control_policies(control_data) ==
    LET enable == control_data.enable
        scope == control_data.scope
        flags == IF scope = "global" THEN (IF enable THEN 1 ELSE 0)
                 ELSE IF scope = "domain" THEN (IF enable THEN 3 ELSE 2)
                 ELSE (IF enable THEN 5 ELSE 4)
        domain_id == IF scope = "global" THEN 0 ELSE INTEL_NM_DOMAINS[control_data.domain_id]
        policy_id == IF scope = "policy" THEN control_data.policy_id ELSE 0
    IN IF scope \notin {"global", "domain", "policy"}
       THEN [exc |-> "UnboundLocalError", val |-> None]
       ELSE [exc |-> NoExc,
             val |-> _create_command_head(INTEL_NM_POLICY_CONTROL)
                     \o << <<"0", "x", "0", Digits[flags + 1]>>, _hex(domain_id),
                            _hex(policy_id)>>]

\* get_policy(data)
get_policy(data) ==
    [exc |-> NoExc,
     val |-> _create_command_head(INTEL_NM_POLICY_GET) \o _add_domain_policy_id(data)]

\* remove_policy(data)
remove_policy(data) ==
    [exc |-> NoExc,
     val |-> _create_command_head(INTEL_NM_POLICY_SET) \o _add_domain_policy_id(data)
             \o [k \in 1..12 |-> <<"0", "x", "0", "0">>]]

\* get_policy_suspend(data)
get_policy_suspend(data) ==
    [exc |-> NoExc,
     val |-> _create_command_head(INTEL_NM_SUSPEND_GET) \o _add_domain_policy_id(data)]

\* remove_policy_suspend(data)
remove_policy_suspend(data) ==
    [exc |-> NoExc,
     val |-> _create_command_head(INTEL_NM_SUSPEND_SET) \o _add_domain_policy_id(data)
             \o << <<"0", "x", "0", "0">> >>]

\* get_version(data)
get_version(data) == [exc |-> NoExc, val |-> _create_command_head(INTEL_NM_VERSION_GET)]

\* binascii.hexlify(data): two lowercase digits per byte, in one string
RECURSIVE hexlify(_)
hexlify(data) ==
    IF data = <<>> THEN <<>>
    ELSE Pad2(HexDigits(Head(data), LowerHex)) \o hexlify(Tail(data))

\* str.find(sub): the lowest 0-based index where sub occurs, -1 if none
find(string, sub) ==
    LET at == {i \in 0..(Len(string) - Len(sub)) :
                  SubSeq(string, i + 1, i + Len(sub)) = sub}
    IN IF at = {} THEN -1 ELSE CHOOSE i \in at : \A j \in at : i <= j

\* string[a:b] for 0 <= a <= b
slice(string, a, b) ==
    SubSeq(string, a + 1, IF b < Len(string) THEN b ELSE Len(string))

\* the prefix parse_slave_and_channel looks for
SDR_PREFIX == <<"5", "7", "0", "1", "0", "0", "0", "d", "0", "1">>

\* parse_slave_and_channel(file_path) on a file with the given bytes: the
\* function is not decorated, ret[2] raises IndexError on a short ret, and
\* falling off the end returns None
parse_slave_and_channel(data) ==
    LET data_str == hexlify(data)
        oem_id_index == find(data_str, SDR_PREFIX)
        ret == slice(data_str, oem_id_index + Len(SDR_PREFIX),
                     oem_id_index + Len(SDR_PREFIX) + 4)
    IN IF oem_id_index = -1 THEN [exc |-> NoExc, val |-> None]
       ELSE IF Len(ret) < 3 THEN [exc |-> "IndexError", val |-> None]
       ELSE [exc |-> NoExc,
             val |-> << <<"0", "x">> \o slice(ret, 0, 2), <<"0", "x", "0", ret[3]>> >>]

\* the elements set_policy_suspend appends for the periods, in order
RECURSIVE suspend_periods(_)
suspend_periods(periods) ==
    IF periods = <<>> THEN <<>>
    ELSE <<_hex(Head(periods).start), _hex(Head(periods).stop),
           _hex(_days_compose(Head(periods).days))>> \o suspend_periods(Tail(periods))

\* set_policy_suspend(suspend)
set_policy_suspend(suspend) ==
    [exc |-> NoExc,
     val |-> _create_command_head(INTEL_NM_SUSPEND_SET)
             \o _add_domain_policy_id(suspend)
             \o <<_hex(Len(suspend.periods))>>
             \o suspend_periods(suspend.periods)]

\* the response parse_policy_suspend reads: the three bytes of the
\* manufacturer id, the number of periods, three bytes per period.  Of a
\* command of set_policy_suspend these are elements 3..5 and 8 onwards.
suspend_response(cmd) == SubSeq(cmd, 3, 5) \o SubSeq(cmd, 8, Len(cmd))

\* parse_policy_suspend(raw_data) under _handle_parsing_error
parse_policy_suspend(raw_data) ==
    LET raw_int == _raw_to_int(raw_data)
        ints == raw_int[1]
        policy_num == ints[4]
    IN IF raw_int = Absent THEN [exc |-> NOT_CONVERTED, val |-> None]
       ELSE IF Len(ints) < 4 THEN [exc |-> WRONG_LENGTH, val |-> None]
       ELSE IF policy_num > 0 /\ Len(ints) < 3 * policy_num + 4
       THEN [exc |-> WRONG_LENGTH, val |-> None]
       ELSE [exc |-> NoExc,
             val |-> [num \in 1..policy_num |->
                         [start |-> ints[3 * (num - 1) + 5],
                          stop |-> ints[3 * (num - 1) + 6],
                          days |-> _days_parse(ints[3 * (num - 1) + 7])]]]

-----------------------------------------------------------------------------
(* Inputs. *)

UUID == "node-1"

\* callback URLs as the ramdisk builds them: http://host[:port][/path]
UrlParts == { [host |-> <<"a">>, port |-> <<"9">>, path |-> <<"/", "p">>],
              [host |-> <<"b">>, port |-> <<>>, path |-> <<"/", "p">>],
              [host |-> <<"a">>, port |-> <<>>, path |-> <<>>] }

MkUrl(u) == <<"h", "t", "t", "p", ":", "/", "/">> \o u.host
            \o (IF u.port = <<>> THEN <<>> ELSE <<":">> \o u.port) \o u.path

CallbackUrls == { MkUrl(u) : u \in UrlParts }

Kwargs == [callback_url : {Absent} \cup {Some(u) : u \in CallbackUrls}]

NoKwargs == [callback_url |-> Absent]

\* what the DHCP provider may answer for the node's ports
IpLists == { <<>>, << <<"a">> >>, << <<"a">>, <<"b">> >> }

\* what task.driver.power.get_power_state may answer (ERROR: it raises)
Readings == {POWER_ON, POWER_OFF, ERROR}

ReadSeqs == [1..(conf.post_deploy_get_power_state_retries + 1) -> Readings]

\* the power poll runs only once everything before it went well: the
\* readings of a run that stops earlier are never consulted and are left out
ReadSeqsFor(site) ==
    IF site \in {"none", "reboot", "clean_up_ramdisk"} THEN ReadSeqs ELSE {<<>>}

InstanceInfos ==
    { [root_gb |-> Absent, swap_mb |-> Absent, ephemeral_gb |-> Absent],
      [root_gb |-> Some(IntVal(1)), swap_mb |-> Absent, ephemeral_gb |-> Some(IntVal(0))],
      [root_gb |-> Some(IntVal(2)), swap_mb |-> Some(StrVal(<<"5", "1", "2">>)),
       ephemeral_gb |-> Some(IntVal(1))] }

DriverInfo == [deploy_username |-> Absent, deploy_key_file |-> Absent,
               deploy_playbook |-> Absent, clean_playbook |-> Absent]

DeploySites == {"none", "power_action", "prepare_variables", "run_playbook",
                "set_boot_device", "reboot", "clean_up_ramdisk"}

\* what a run of deploy may meet: in callback mode only the reboot can
\* fail; otherwise the reboot fails, or the DHCP provider answers with no or
\* several addresses, or it answers with one and the deploy sequence runs
DeployEnvs ==
    IF conf.use_ramdisk_callback
    THEN {[fail |-> f, ips |-> <<>>, reads |-> <<>>] : f \in {"none", "power_action"}}
    ELSE {[fail |-> "power_action", ips |-> <<>>, reads |-> <<>>]}
         \cup {[fail |-> "none", ips |-> i, reads |-> <<>>] : i \in {j \in IpLists : Len(j) # 1}}
         \cup UNION {[fail : {f}, ips : {j \in IpLists : Len(j) = 1}, reads : ReadSeqsFor(f)] :
                        f \in DeploySites \ {"power_action"}}

CleanSites == {"none", "prepare_cleaning_ports", "prepare_ramdisk", "power_action",
               "save", "run_playbook"}

\* the clean steps the conductor may hand to execute_clean_step, as
\* _get_clean_steps builds them; the first has the default empty tags list
StepInputs ==
    { [step |-> "erase_devices", priority |-> 10, abortable |-> FALSE, argsinfo |-> Absent,
       interface |-> "deploy", tags |-> <<>>],
      [step |-> "zap", priority |-> 0, abortable |-> FALSE, argsinfo |-> Absent,
       interface |-> "deploy", tags |-> <<"zap">>],
      [step |-> "wipe", priority |-> 5, abortable |-> FALSE, argsinfo |-> Absent,
       interface |-> "deploy", tags |-> <<"parted", "shred">>] }

StepSites == {"none", "run_playbook"}

TearDownSites == {"none", "save", "power_action", "clean_up_ramdisk",
                  "tear_down_cleaning_ports"}

\* the call sites a heartbeat reaches, by the provisioning state it finds
HeartbeatSites(state) ==
    IF state = DEPLOYWAIT
    THEN {"none", "prepare_variables", "run_playbook", "set_boot_device",
          "reboot", "clean_up_ramdisk"}
    ELSE IF state = CLEANWAIT
    THEN {"none", "save", "set_node_cleaning_steps", "get_topic_for",
          "release_resources", "continue_node_clean"}
    ELSE {"none"}

-----------------------------------------------------------------------------
(* The state machine. *)

Idle == [exc |-> NoExc, ret |-> None, locked |-> FALSE]

Init ==
    /\ node \in [uuid : {UUID},
                 provision_state : {AVAILABLE},
                 driver_info : {DriverInfo},
                 driver_internal_info : [is_whole_disk_image : {Absent, Some(TRUE), Some(FALSE)},
                                         ansible_cleaning_ip : {Absent}],
                 instance_info : InstanceInfos,
                 last_error : {Absent}]
    /\ conf \in [use_ramdisk_callback : BOOLEAN,
                 post_deploy_get_power_state_retries : 0..MaxRetries]
    /\ rpc_pending = 0
    /\ call = [op |-> "init", kwargs |-> NoKwargs, pre |-> node]
    /\ log = <<>>
    /\ result = Idle

\* the driver's entry point op, called with kwargs on the node (kept as
\* call.pre), ran to s and left the node as n
Finish(op, kwargs, s, n) ==
    /\ node' = n
    /\ call' = [op |-> op, kwargs |-> kwargs, pre |-> node]
    /\ log' = s.log
    /\ result' = [exc |-> s.exc, ret |-> IF s.exc = NoExc THEN s.val ELSE None,
                  locked |-> s.locked]
    /\ rpc_pending' = rpc_pending + s.rpcs
    /\ UNCHANGED conf

\* a step of the orchestrator that calls no code of the driver (pre is the
\* node an entry point of the driver would find after it)
Conductor(op, n, pending) ==
    /\ node' = n
    /\ call' = [op |-> op, kwargs |-> NoKwargs, pre |-> n]
    /\ log' = <<>>
    /\ result' = Idle
    /\ rpc_pending' = pending
    /\ UNCHANGED conf

\* the conductor starts a deployment, once it has handled the RPCs sent to
\* it: last_error is cleared and the node goes to DEPLOYING
do_node_deploy ==
    /\ node.provision_state \in {AVAILABLE, ACTIVE, DEPLOYFAIL}
    /\ rpc_pending = 0
    /\ Conductor("do_node_deploy",
                 [node EXCEPT !.provision_state = DEPLOYING, !.last_error = Absent],
                 rpc_pending)

\* the conductor calls deploy(task) on a node in DEPLOYING and moves the
\* node on the state deploy returns, or fails the deployment when it raises
Deploy ==
    /\ node.provision_state = DEPLOYING
    /\ \E env \in DeployEnvs :
       \E s \in {deploy(Start(node), env)} :
          LET after == IF s.exc # NoExc THEN DEPLOYFAIL
                       ELSE IF s.val = DEPLOYWAIT THEN DEPLOYWAIT
                       ELSE ACTIVE
          IN Finish("deploy", NoKwargs, s, [s.db EXCEPT !.provision_state = after])

\* the conductor starts cleaning: last_error is cleared and the node goes
\* to CLEANING
do_node_clean ==
    /\ node.provision_state \in {AVAILABLE, ACTIVE, DEPLOYFAIL, CLEANFAIL}
    /\ Conductor("do_node_clean",
                 [node EXCEPT !.provision_state = CLEANING, !.last_error = Absent],
                 rpc_pending)

\* the conductor calls prepare_cleaning(task) on a node in CLEANING
PrepareCleaning ==
    /\ node.provision_state = CLEANING
    /\ \E fail \in CleanSites, ips \in IpLists :
       \E s \in {prepare_cleaning(Start(node), [fail |-> fail, ips |-> ips, reads |-> <<>>])} :
          LET after == IF s.exc # NoExc THEN CLEANFAIL
                       ELSE IF s.val = CLEANWAIT THEN CLEANWAIT
                       ELSE CLEANING
          IN Finish("prepare_cleaning", NoKwargs, s, [s.db EXCEPT !.provision_state = after])

\* the conductor runs a clean step on a node in CLEANING, once
\* prepare_cleaning returned or the continue_node_clean RPC was handled; the
\* node stays in CLEANING, or the cleaning fails when the step raises
ExecuteCleanStep ==
    /\ node.provision_state = CLEANING
    /\ call.op \in {"prepare_cleaning", "continue_node_clean", "execute_clean_step"}
    /\ \E step \in StepInputs, fail \in StepSites :
       \E s \in {execute_clean_step(Start(node), [fail |-> fail, ips |-> <<>>, reads |-> <<>>],
                                    step)} :
          LET after == IF s.exc # NoExc THEN CLEANFAIL ELSE CLEANING
          IN Finish("execute_clean_step", [step |-> step], s,
                    [s.db EXCEPT !.provision_state = after])

\* the conductor finishes cleaning: it calls tear_down_cleaning(task) and
\* makes the node available, or fails the cleaning when the call raises
TearDownCleaning ==
    /\ node.provision_state = CLEANING
    /\ \E fail \in TearDownSites :
       \E s \in {tear_down_cleaning(Start(node), [fail |-> fail, ips |-> <<>>, reads |-> <<>>])} :
          LET after == IF s.exc # NoExc THEN CLEANFAIL ELSE AVAILABLE
          IN Finish("tear_down_cleaning", NoKwargs, s, [s.db EXCEPT !.provision_state = after])

\* the conductor handles a continue_node_clean RPC: a node still waiting
\* for the callback resumes cleaning
handle_continue_node_clean ==
    /\ rpc_pending > 0
    /\ Conductor("continue_node_clean",
                 IF node.provision_state = CLEANWAIT
                 THEN [node EXCEPT !.provision_state = CLEANING]
                 ELSE node,
                 rpc_pending - 1)

\* the ramdisk's callback: heartbeat(task, **kwargs), in any state of the node
Heartbeat ==
    /\ rpc_pending < MaxPending
    /\ \E kwargs \in Kwargs, fail \in HeartbeatSites(node.provision_state) :
       \E reads \in ReadSeqsFor(IF node.provision_state = DEPLOYWAIT THEN fail ELSE "save") :
       \E s \in {heartbeat(Start(node), [fail |-> fail, ips |-> <<>>, reads |-> reads], kwargs)} :
          Finish("heartbeat", kwargs, s, s.db)

Next ==
    \/ do_node_deploy
    \/ Deploy
    \/ do_node_clean
    \/ PrepareCleaning
    \/ ExecuteCleanStep
    \/ TearDownCleaning
    \/ handle_continue_node_clean
    \/ Heartbeat

Spec == Init /\ [][Next]_vars

-----------------------------------------------------------------------------
(* The helpers that compute a value from their arguments alone are applied  *)
(* to inputs drawn by the initial state: call.kwargs holds the arguments    *)
(* and, once the helper has run, result holds what it returned or raised.   *)

FixedNode == [uuid |-> UUID, provision_state |-> CLEANING, driver_info |-> DriverInfo,
              driver_internal_info |-> [is_whole_disk_image |-> Absent,
                                        ansible_cleaning_ip |-> Absent],
              instance_info |-> [root_gb |-> Absent, swap_mb |-> Absent,
                                 ephemeral_gb |-> Absent],
              last_error |-> Absent]

\* the arguments are drawn from inputs; nothing has run yet
InputsFrom(inputs) ==
    /\ node = FixedNode
    /\ conf = [use_ramdisk_callback |-> TRUE, post_deploy_get_power_state_retries |-> 0]
    /\ rpc_pending = 0
    /\ log = <<>>
    /\ result = Idle
    /\ call \in [op : {"input"}, kwargs : inputs, pre : {FixedNode}]

\* helper op ran on call.kwargs and returned or raised r
Applied(op, r) ==
    /\ call' = [call EXCEPT !.op = op]
    /\ result' = [exc |-> r.exc, ret |-> r.val, locked |-> FALSE]
    /\ UNCHANGED <<node, conf, rpc_pending, log>>

\* entries of a clean-steps file: complete mappings, mappings that lack a
\* key, and an entry that is not a mapping
StepEntries ==
    { [type |-> "map", val |-> [name |-> "erase_devices", interface |-> "deploy",
                                priority |-> 10]],
      [type |-> "map", val |-> [name |-> "zap", interface |-> "deploy", priority |-> 0,
                                tags |-> <<"zap">>, abortable |-> TRUE]],
      [type |-> "map", val |-> [name |-> "reset", interface |-> "power", priority |-> 5]],
      [type |-> "map", val |-> [name |-> "wipe", interface |-> "deploy"]],
      [type |-> "map", val |-> [name |-> "wipe", priority |-> 5]],
      [type |-> "map", val |-> [interface |-> "deploy", priority |-> 5]],
      [type |-> "str"] }

\* what may be found at the path of the clean-steps file
StepFiles ==
    { [type |-> "missing"], [type |-> "unparsable"], [type |-> "none"], [type |-> "int"],
      [type |-> "dict", keys |-> <<"name", "interface">>] }
    \cup { [type |-> "list", items |-> q] :
             q \in UNION { [1..n -> StepEntries] : n \in 0..MaxEntries } }

Interfaces == {Absent, Some("deploy"), Some("power")}

ErasePriorities == {Absent, Some(0), Some(7)}

Overrides ==
    { Absent, Some(EmptyDict), Some([erase_devices |-> Some(7), zap |-> Some(3)]) }
    \cup { Some([erase_devices |-> e]) : e \in ErasePriorities }

StepsInit ==
    InputsFrom([file : StepFiles, interface : Interfaces, override_priorities : Overrides])

GetCleanSteps ==
    /\ call.op = "input"
    /\ \E r \in {_get_clean_steps(call.kwargs.file, call.kwargs.interface,
                                   call.kwargs.override_priorities)} :
          Applied("_get_clean_steps", r)

\* the deploy interface's get_clean_steps, for the arguments it passes on
GetCleanStepsDeploy ==
    /\ call.op = "input"
    /\ call.kwargs.interface = Some("deploy")
    /\ \E e \in ErasePriorities :
          /\ call.kwargs.override_priorities = Some([erase_devices |-> e])
          /\ \E r \in {get_clean_steps(call.kwargs.file, e)} : Applied("get_clean_steps", r)

StepsNext ==
    \/ GetCleanSteps
    \/ GetCleanStepsDeploy

StepsSpec == StepsInit /\ [][StepsNext]_vars

\* values of root_gb, swap_mb and ephemeral_gb: integers and strings, zero,
\* positive and negative, and a string that is not a number
SizeValues ==
    { IntVal(0), IntVal(3), IntVal(0 - 1),
      StrVal(<<"1", "2">>), StrVal(<<"-", "2">>), StrVal(<<"1", "x">>) }

Sizes == {Absent} \cup {Some(v) : v \in SizeValues}

\* the other keys of instance_info that _parse_partitioning_info reads
ExtraInfos ==
    { EmptyDict,
      [preserve_ephemeral |-> "true"],
      [preserve_ephemeral |-> "maybe"],
      [ephemeral_format |-> "xfs"],
      [configdrive |-> <<"h", "t", "t", "p", "s", ":", "/", "/", "a">>],
      [configdrive |-> <<"a", ":", " ", "b">>] }

PartInit ==
    InputsFrom({ sizes @@ extra : sizes \in [root_gb : Sizes, swap_mb : Sizes,
                                             ephemeral_gb : Sizes],
                                  extra \in ExtraInfos })

ParsePartitioningInfo ==
    /\ call.op = "input"
    /\ \E r \in {_parse_partitioning_info([FixedNode EXCEPT !.instance_info = call.kwargs])} :
          Applied("_parse_partitioning_info", r)

PartNext == ParsePartitioningInfo

PartSpec == PartInit /\ [][PartNext]_vars

\* policies with names of the tables and numbers that fit their fields
Policies ==
    [kind : {"policy"},
     domain_id : DOMAIN INTEL_NM_DOMAINS,
     policy_id : {7},
     enable : BOOLEAN,
     policy_trigger : DOMAIN INTEL_NM_TRIGGERS,
     action : DOMAIN INTEL_NM_ACTIONS,
     power_domain : DOMAIN INTEL_NM_POWER_DOMAIN,
     target_limit : {TargetInt(300)},
     correction_time : {70000},
     trigger_limit : {0, 5},
     reporting_period : {9}]

Periods ==
    { [start |-> 0, stop |-> 1, days |-> <<"monday">>],
      [start |-> 2, stop |-> 3, days |-> <<"sunday", "tuesday">>],
      [start |-> 10, stop |-> 20, days |-> <<"friday">>] }

Suspends ==
    [kind : {"suspend"},
     domain_id : {"cpu", "io"},
     policy_id : {1, 7},
     periods : UNION { [1..n -> Periods] : n \in 0..MaxPeriods }]

NmInit == InputsFrom(Policies \cup Suspends)

SetPolicy ==
    /\ call.op = "input"
    /\ call.kwargs.kind = "policy"
    /\ \E r \in {set_policy(call.kwargs)} : Applied("set_policy", r)

\* parse_policy applied to the command set_policy returned
ParsePolicy ==
    /\ call.op = "set_policy"
    /\ result.exc = NoExc
    /\ \E r \in {parse_policy(result.ret)} : Applied("parse_policy", r)

SetPolicySuspend ==
    /\ call.op = "input"
    /\ call.kwargs.kind = "suspend"
    /\ \E r \in {set_policy_suspend(call.kwargs)} : Applied("set_policy_suspend", r)

\* parse_policy_suspend applied to the command set_policy_suspend returned
ParsePolicySuspend ==
    /\ call.op = "set_policy_suspend"
    /\ result.exc = NoExc
    /\ \E r \in {parse_policy_suspend(result.ret)} : Applied("parse_policy_suspend", r)

\* parse_policy_suspend applied to the response that carries the periods
\* of the command set_policy_suspend returned
ParsePolicySuspendResponse ==
    /\ call.op = "set_policy_suspend"
    /\ result.exc = NoExc
    /\ \E r \in {parse_policy_suspend(suspend_response(result.ret))} :
          Applied("parse_policy_suspend_response", r)

NmNext ==
    \/ SetPolicy
    \/ ParsePolicy
    \/ SetPolicySuspend
    \/ ParsePolicySuspend
    \/ ParsePolicySuspendResponse

NmSpec == NmInit /\ [][NmNext]_vars

\* lists of weekday names, in any order and with repetitions, and 7-bit
\* patterns
DayLists ==
    [kind : {"days"},
     days : UNION { [1..n -> DOMAIN INTEL_NM_DAYS] : n \in 0..MaxDays }]

DayPatterns == [kind : {"pattern"}, pattern : 0..127]

DaysInit == InputsFrom(DayLists \cup DayPatterns)

DaysCompose ==
    /\ call.op = "input"
    /\ call.kwargs.kind = "days"
    /\ Applied("_days_compose", [exc |-> NoExc, val |-> _days_compose(call.kwargs.days)])

\* _days_parse applied to the pattern _days_compose returned
DaysParseComposed ==
    /\ call.op = "_days_compose"
    /\ call.kwargs.kind = "days"
    /\ Applied("_days_parse", [exc |-> NoExc, val |-> _days_parse(result.ret)])

DaysParse ==
    /\ call.op = "input"
    /\ call.kwargs.kind = "pattern"
    /\ Applied("_days_parse", [exc |-> NoExc, val |-> _days_parse(call.kwargs.pattern)])

\* _days_compose applied to the list _days_parse returned
DaysComposeParsed ==
    /\ call.op = "_days_parse"
    /\ call.kwargs.kind = "pattern"
    /\ Applied("_days_compose", [exc |-> NoExc, val |-> _days_compose(result.ret)])

DaysNext ==
    \/ DaysCompose
    \/ DaysParseComposed
    \/ DaysParse
    \/ DaysComposeParsed

DaysSpec == DaysInit /\ [][DaysNext]_vars

\* a response of MaxRaw elements that parse_capabilities accepts: the
\* manufacturer id, then bytes 0x01, and 0x82 (domain memory, secondary
\* power domain) as byte 20
FullResponse ==
    [k \in 1..MaxRaw |->
        IF k <= 3 THEN INTEL_NM_ID[k]
        ELSE IF k = 21 THEN <<"0", "x", "8", "2">>
        ELSE <<"0", "x", "0", "1">>]

\* elements put in the place of one element of the response: two bytes
\* (low nibbles 5 and 2), a text that is no hex number, a hex number that
\* is no byte
RawElements ==
    { <<"0", "x", "0", "5">>, <<"0", "x", "1", "2">>, <<"z", "z">>,
      <<"0", "x", "1", "0", "0">> }

\* the response, or the response with one element replaced, cut to any
\* length
RawResponses ==
    { [kind |-> "raw", raw_data |-> SubSeq(full, 1, n)] :
        full \in {FullResponse}
                  \cup { [FullResponse EXCEPT ![k] = e] : k \in 1..MaxRaw, e \in RawElements },
        n \in 0..MaxRaw }

RawInit == InputsFrom(RawResponses)

ParseCapabilities ==
    /\ call.op = "input"
    /\ \E r \in {parse_capabilities(call.kwargs.raw_data)} : Applied("parse_capabilities", r)

ParseVersion ==
    /\ call.op = "input"
    /\ \E r \in {parse_version(call.kwargs.raw_data)} : Applied("parse_version", r)

ParsePolicyRaw ==
    /\ call.op = "input"
    /\ \E r \in {parse_policy(call.kwargs.raw_data)} : Applied("parse_policy", r)

ParsePolicySuspendRaw ==
    /\ call.op = "input"
    /\ \E r \in {parse_policy_suspend(call.kwargs.raw_data)} :
          Applied("parse_policy_suspend", r)

RawNext ==
    \/ ParseCapabilities
    \/ ParseVersion
    \/ ParsePolicyRaw
    \/ ParsePolicySuspendRaw

RawSpec == RawInit /\ [][RawNext]_vars

\* the five bytes 57 01 00 0d 01 of the record looked for
SDR_BYTES == <<87, 1, 0, 13, 1>>

\* the middle of a dump file: the record; bytes 05 70 10 00 d0 1a, whose
\* hex digits hold the prefix from the second digit on; these followed by
\* the record; the start of the record only
FileCores ==
    { SDR_BYTES,
      <<5, 112, 16, 0, 208, 26>>,
      <<5, 112, 16, 0, 208, 26, 0>> \o SDR_BYTES,
      <<87, 1>> }

\* bytes around it: 20, 2c, b4
FileBytes == {32, 44, 180}

\* dump files: at most one byte, a core, at most MaxTail bytes
DumpFiles ==
    { [kind |-> "file", data |-> pre \o core \o post] :
        pre \in UNION { [1..n -> FileBytes] : n \in 0..1 },
        core \in FileCores,
        post \in UNION { [1..n -> FileBytes] : n \in 0..MaxTail } }

SdrInit == InputsFrom(DumpFiles)

ParseSlaveAndChannel ==
    /\ call.op = "input"
    /\ \E r \in {parse_slave_and_channel(call.kwargs.data)} :
          Applied("parse_slave_and_channel", r)

SdrNext == ParseSlaveAndChannel

SdrSpec == SdrInit /\ [][SdrNext]_vars

\* arguments of get_policy, remove_policy, get_policy_suspend,
\* remove_policy_suspend and get_version
PolicyIds == [kind : {"ids"}, domain_id : DOMAIN INTEL_NM_DOMAINS, policy_id : {0, 7, 255, 256}]

CapabilityQueries ==
    [kind : {"capabilities"},
     domain_id : DOMAIN INTEL_NM_DOMAINS,
     policy_trigger : DOMAIN INTEL_NM_TRIGGERS,
     power_domain : DOMAIN INTEL_NM_POWER_DOMAIN]

Controls ==
    [kind : {"control"},
     scope : {"global", "domain", "policy"},
     enable : BOOLEAN,
     domain_id : {"cpu", "io"},
     policy_id : {7, 256}]

\* schedules whose periods may stop at 256
LongSuspends ==
    [kind : {"suspend"},
     domain_id : {"cpu"},
     policy_id : {1, 256},
     periods : UNION { [1..n -> Periods \cup {[start |-> 0, stop |-> 256,
                                                days |-> <<"saturday">>]}] :
                       n \in 0..MaxPeriods }]

BuildInit ==
    InputsFrom(Policies \cup PolicyIds \cup CapabilityQueries \cup Controls
               \cup LongSuspends)

\* builder op was called on call.kwargs: r is what it returned or raised
\* and arg is the argument object as the call left it
Built(op, r, arg) ==
    Applied(op, [exc |-> r.exc, val |-> [ret |-> r.val, arg |-> arg, first |-> r.val]])

BuildSetPolicy ==
    /\ call.op = "input"
    /\ call.kwargs.kind = "policy"
    /\ \E r \in {set_policy(call.kwargs)} :
          Built("set_policy", r, set_policy_defaults(call.kwargs))

\* set_policy called a second time on the same dict
BuildSetPolicyAgain ==
    /\ call.op = "set_policy"
    /\ \E r \in {set_policy(result.ret.arg)} :
          Applied("set_policy_again",
                  [exc |-> r.exc,
                   val |-> [ret |-> r.val, arg |-> set_policy_defaults(result.ret.arg),
                            first |-> result.ret.ret]])

BuildSetPolicySuspend ==
    /\ call.op = "input"
    /\ call.kwargs.kind = "suspend"
    /\ \E r \in {set_policy_suspend(call.kwargs)} :
          Built("set_policy_suspend", r, call.kwargs)

BuildGetCapabilities ==
    /\ call.op = "input"
    /\ call.kwargs.kind = "capabilities"
    /\ \E r \in {get_capabilities(call.kwargs)} : Built("get_capabilities", r, call.kwargs)

BuildControlPolicies ==
    /\ call.op = "input"
    /\ call.kwargs.kind = "control"
    /\ \E r \in {control_policies(call.kwargs)} : Built("control_policies", r, call.kwargs)

BuildGetPolicy ==
    /\ call.op = "input"
    /\ call.kwargs.kind = "ids"
    /\ \E r \in {get_policy(call.kwargs)} : Built("get_policy", r, call.kwargs)

BuildRemovePolicy ==
    /\ call.op = "input"
    /\ call.kwargs.kind = "ids"
    /\ \E r \in {remove_policy(call.kwargs)} : Built("remove_policy", r, call.kwargs)

BuildGetPolicySuspend ==
    /\ call.op = "input"
    /\ call.kwargs.kind = "ids"
    /\ \E r \in {get_policy_suspend(call.kwargs)} :
          Built("get_policy_suspend", r, call.kwargs)

BuildRemovePolicySuspend ==
    /\ call.op = "input"
    /\ call.kwargs.kind = "ids"
    /\ \E r \in {remove_policy_suspend(call.kwargs)} :
          Built("remove_policy_suspend", r, call.kwargs)

BuildGetVersion ==
    /\ call.op = "input"
    /\ call.kwargs.kind = "ids"
    /\ \E r \in {get_version(call.kwargs)} : Built("get_version", r, call.kwargs)

BuildNext ==
    \/ BuildSetPolicy
    \/ BuildSetPolicyAgain
    \/ BuildSetPolicySuspend
    \/ BuildGetCapabilities
    \/ BuildControlPolicies
    \/ BuildGetPolicy
    \/ BuildRemovePolicy
    \/ BuildGetPolicySuspend
    \/ BuildRemovePolicySuspend
    \/ BuildGetVersion

BuildSpec == BuildInit /\ [][BuildNext]_vars

-----------------------------------------------------------------------------
(* What the properties below read from the record of the last call. *)

\* the positions of the log where call c was made
Calls(c) == {i \in DOMAIN log : log[i].call = c}

\* the positions of the log where provisioning event e was processed
Events(e) == {i \in Calls("process_event") : log[i].event = e}

\* the positions of the log where an external call raised
Failures == {i \in DOMAIN log : "ok" \in DOMAIN log[i] /\ ~log[i].ok}

\* the last call was a heartbeat with a callback_url, on a node in state
HeartbeatIn(state) ==
    /\ call.op = "heartbeat"
    /\ call.kwargs.callback_url # Absent
    /\ call.pre.provision_state = state

\* the deploy sequence ran to its last step
SequenceCompleted == \E i \in Calls("clean_up_ramdisk") : log[i].ok

-----------------------------------------------------------------------------
(* Properties. *)

\* C1: in the CLEANWAIT branch of heartbeat, every continue_node_clean RPC
\* is issued after release_resources has given the node lock back: the RPC
\* is never sent while the heartbeat's task holds the lock.
C1_RpcAfterRelease ==
    call.op = "heartbeat" =>
        \A i \in Calls("continue_node_clean") :
            /\ ~log[i].locked
            /\ \E j \in 1..(i - 1) : log[j].call = "release_resources" /\ log[j].ok

C1_Witness ==
    /\ HeartbeatIn(CLEANWAIT)
    /\ \E i \in Calls("continue_node_clean") : log[i].ok
    /\ rpc_pending > 0

\* C2: a heartbeat with a callback_url on a node in DEPLOYWAIT processes
\* 'resume' first, then runs the deploy sequence against the host of the
\* callback_url; when the sequence completes it processes 'done' exactly
\* once, after the sequence, and 'done' is never processed otherwise.
C2_ResumeDeployDone ==
    HeartbeatIn(DEPLOYWAIT) =>
        /\ Events("resume") = {1}
        /\ Len(log) >= 2 /\ log[2].call = "download_size"
        /\ \A i \in Calls("run_playbook") : \A u \in UrlParts :
              MkUrl(u) = call.kwargs.callback_url[1] =>
                  log[i].args.extra_vars.ironic_nodes[1].ip = u.host
        /\ SequenceCompleted => Cardinality(Events("done")) = 1
        /\ \A d \in Events("done") :
              /\ d = Len(log)
              /\ \E p \in Calls("run_playbook") : \E c \in Calls("clean_up_ramdisk") :
                    log[p].ok /\ log[c].ok /\ 1 < p /\ p < c /\ c < d
        /\ Events("done") # {} <=> node.provision_state = ACTIVE

C2_Witness ==
    /\ HeartbeatIn(DEPLOYWAIT)
    /\ call.kwargs.callback_url[1] = MkUrl([host |-> <<"a">>, port |-> <<"9">>,
                                           path |-> <<"/", "p">>])
    /\ Events("done") = {Len(log)}
    /\ node.provision_state = ACTIVE

\* C3: when the deploy sequence fails at any step during a heartbeat on a
\* node in DEPLOYWAIT, the node ends in DEPLOYFAIL with the error text
\* recorded, 'done' is not processed, no continue_node_clean RPC is sent
\* and heartbeat returns without raising.
C3_DeployFailureRecorded ==
    (HeartbeatIn(DEPLOYWAIT) /\ ~SequenceCompleted) =>
        /\ node.provision_state = DEPLOYFAIL
        /\ node.last_error # Absent
        /\ node.last_error[1][1] = "Deploy failed"
        /\ node.last_error[1][2] # NoExc
        /\ Events("done") = {}
        /\ Calls("continue_node_clean") = {}
        /\ result.exc = NoExc

C3_Witness ==
    /\ HeartbeatIn(DEPLOYWAIT)
    /\ \E i \in Calls("run_playbook") : ~log[i].ok
    /\ node.provision_state = DEPLOYFAIL

\* C4: a heartbeat with a callback_url on a node that is neither in
\* DEPLOYWAIT nor in CLEANWAIT changes nothing: the node is as it was, no
\* event is processed, nothing is saved, no playbook runs, no power action
\* is issued, the lock is still held and no RPC is sent.
C4_OtherStateNoAction ==
    (/\ call.op = "heartbeat"
     /\ call.kwargs.callback_url # Absent
     /\ call.pre.provision_state \notin {DEPLOYWAIT, CLEANWAIT}) =>
        /\ node = call.pre
        /\ \A i \in DOMAIN log : log[i].call = "LOG.warning"
        /\ result.locked
        /\ result.exc = NoExc

C4_Witness ==
    /\ HeartbeatIn(ACTIVE)
    /\ Len(log) = 1
    /\ node.provision_state = ACTIVE

\* C5: in the CLEANWAIT branch of heartbeat, the failure of any step
\* (saving ansible_cleaning_ip, computing the clean steps, releasing the
\* lock, sending the RPC) is handed to cleaning_error_handler, and heartbeat
\* returns without raising.
C5_CleanFailureHandled ==
    (HeartbeatIn(CLEANWAIT) /\ Failures # {}) =>
        /\ Calls("cleaning_error_handler") # {}
        /\ result.exc = NoExc

\* the DHCP provider answered with exactly one address
IpResolved == \E i \in Calls("get_ip_addresses") : Len(log[i].ip_addrs) = 1

\* C6: deploy(task) issues a hard reboot first.  With callback mode on it
\* then returns DEPLOYWAIT and does nothing else; with callback mode off it
\* resolves the node's single IP, runs the deploy sequence against it and
\* returns DEPLOYDONE exactly when both succeeded, and raises otherwise.
C6_DeployReturn ==
    call.op = "deploy" =>
        /\ Len(log) >= 1
        /\ log[1].call = "node_power_action" /\ log[1].state = REBOOT
        /\ ~log[1].ok => (result.exc # NoExc /\ Len(log) = 1)
        /\ (conf.use_ramdisk_callback /\ log[1].ok) =>
              (result.exc = NoExc /\ result.ret = DEPLOYWAIT /\ Len(log) = 1)
        /\ (~conf.use_ramdisk_callback /\ log[1].ok) =>
              /\ Len(log) >= 2 /\ log[2].call = "get_ip_addresses"
              /\ ~IpResolved => Len(log) = 2
              /\ \A p \in Calls("run_playbook") :
                    log[p].args.extra_vars.ironic_nodes[1].ip = log[2].ip_addrs[1]
              /\ (result.exc = NoExc /\ result.ret = DEPLOYDONE)
                    <=> (IpResolved /\ SequenceCompleted)
              /\ ~(IpResolved /\ SequenceCompleted) => result.exc # NoExc

C6_Witness ==
    /\ call.op = "deploy"
    /\ ~conf.use_ramdisk_callback
    /\ result.ret = DEPLOYDONE
    /\ SequenceCompleted

\* the step of the deploy sequence an external call belongs to (0: none)
SeqStep(e) ==
    CASE e.call = "run_playbook" -> 1
      [] e.call = "node_set_boot_device" -> 2
      [] e.call = "get_power_state" -> 3
      [] e.call = "node_power_action" -> 4
      [] e.call = "clean_up_ramdisk" -> 5
      [] OTHER -> 0

\* the positions of the log that belong to the deploy sequence (the reboot
\* deploy() itself issues first does not)
SeqCalls == {i \in DOMAIN log : SeqStep(log[i]) > 0 /\ ~(call.op = "deploy" /\ i = 1)}

\* the call went well (or, for a power-state query, was made)
WentWell(e) == IF "ok" \in DOMAIN e THEN e.ok ELSE TRUE

\* C7: the deploy sequence runs the playbook, sets the boot device to disk
\* (persistent), polls the power state and reboots, then cleans up the
\* ramdisk, in this order, each step only after the one before went well;
\* after a failed playbook run none of the later steps happens.
C7_SequenceOrder ==
    call.op \in {"deploy", "heartbeat"} =>
        /\ Cardinality(Calls("run_playbook")) <= 1
        /\ \A i \in SeqCalls : SeqStep(log[i]) >= 2 =>
              \E j \in SeqCalls :
                  /\ j < i
                  /\ \A k \in SeqCalls : k < i => k <= j
                  /\ WentWell(log[j])
                  /\ \/ SeqStep(log[j]) = SeqStep(log[i]) - 1
                     \/ SeqStep(log[j]) = 3 /\ SeqStep(log[i]) = 3
        /\ \A i \in SeqCalls : (WentWell(log[i]) /\ SeqStep(log[i]) < 5) =>
              \E j \in SeqCalls : j > i
        /\ \A i \in Calls("node_set_boot_device") :
              log[i].device = "disk" /\ log[i].persistent
        /\ \A p \in Calls("run_playbook") : ~log[p].ok =>
              \A j \in SeqCalls : j <= p

C7_Witness ==
    /\ call.op = "heartbeat"
    /\ SequenceCompleted
    /\ [i \in DOMAIN log |-> SeqStep(log[i])] = <<0, 0, 1, 2, 3, 3, 4, 5, 0>>

\* C8: every run of the deploy playbook skips the tag 'parted' exactly when
\* the node's is_whole_disk_image flag is set, and carries the partition
\* plan in its variables exactly when the flag is not set.
C8_PartedSkipped ==
    call.op \in {"deploy", "heartbeat"} =>
        \A p \in Calls("run_playbook") :
            LET iwdi == call.pre.driver_internal_info.is_whole_disk_image = Some(TRUE)
                skip == log[p].args.skip_tags
            IN /\ (skip # Absent /\ \E k \in DOMAIN skip[1] : skip[1][k] = "parted") <=> iwdi
               /\ ("ironic_partitions" \in DOMAIN log[p].args.extra_vars) <=> ~iwdi

C8_Witness ==
    /\ call.op = "heartbeat"
    /\ call.pre.driver_internal_info.is_whole_disk_image = Some(TRUE)
    /\ \E p \in Calls("run_playbook") : log[p].args.skip_tags = Some(<<"parted">>)

\* C9: with R = post_deploy_get_power_state_retries >= 0 and any power
\* states observed, _reboot_and_finish_deploy asks for the power state at
\* least once and at most R + 1 times, and never again after an answer of
\* POWER_OFF.
C9_PollBounded ==
    call.op \in {"deploy", "heartbeat"} =>
        LET q == Calls("get_power_state")
        IN /\ (\E i \in Calls("node_set_boot_device") : log[i].ok) => Cardinality(q) >= 1
           /\ Cardinality(q) <= conf.post_deploy_get_power_state_retries + 1
           /\ \A i \in q : \A j \in q : i < j => log[i].state # POWER_OFF

C9_Witness ==
    /\ call.op = "heartbeat"
    /\ Cardinality(Calls("get_power_state")) = 2
    /\ conf.post_deploy_get_power_state_retries = 2
    /\ \E i \in Calls("get_power_state") : log[i].state = POWER_OFF

\* what the poll raises when its attempts are used up
PollErrors == {"RetryError", "PowerStateError"}

\* C10: _reboot_and_finish_deploy issues exactly one hard reboot, after its
\* last power-state query, whether POWER_OFF was seen, the attempts ran out
\* or a query raised; neither running out nor a query error reaches the
\* caller.
C10_RebootAfterPoll ==
    (call.op \in {"deploy", "heartbeat"} /\ Calls("get_power_state") # {}) =>
        LET q == Calls("get_power_state")
            reboots == {i \in Calls("node_power_action") : \E j \in q : j < i}
        IN /\ Cardinality(reboots) = 1
           /\ \A i \in reboots : log[i].state = REBOOT /\ \A j \in q : j < i
           /\ result.exc \notin PollErrors
           /\ node.last_error # Absent => node.last_error[1][2] \notin PollErrors

C10_Witness ==
    /\ call.op = "deploy"
    /\ \E w \in Calls("LOG.warning") :
          /\ log[w].error = "PowerStateError"
          /\ w < Len(log)
          /\ log[w + 1].call = "node_power_action" /\ log[w + 1].ok
    /\ result.ret = DEPLOYDONE

\* the node as the driver left it: the conductor's own move of the
\* provisioning state after the call is set aside
DriverLeft == [node EXCEPT !.provision_state = call.pre.provision_state]

C12_StepTagsFilter ==
    call.op = "execute_clean_step" =>
        \A p \in Calls("run_playbook") :
            log[p].args.tags = Some(call.kwargs.step.tags)

\* C13: prepare_cleaning prepares the cleaning ports, stages the ramdisk and
\* reboots, in that order.  In callback mode the ramdisk gets the callback
\* options and CLEANWAIT is returned with no address resolved and no
\* playbook run; otherwise the ramdisk gets empty options and the single
\* resolved address is saved in ansible_cleaning_ip before the clean
\* playbook runs with the tags filter 'wait', so that it stays recorded when
\* that run fails.
C13_PrepareCleaning ==
    call.op = "prepare_cleaning" =>
        /\ Len(log) >= 1 /\ log[1].call = "prepare_cleaning_ports"
        /\ ~log[1].ok => Len(log) = 1
        /\ log[1].ok => Len(log) >= 2 /\ log[2].call = "prepare_ramdisk"
        /\ \A i \in Calls("prepare_ramdisk") :
              /\ i = 2
              /\ ~log[i].ok => Len(log) = 2
              /\ log[i].ok => /\ Len(log) >= 3
                              /\ log[3].call = "node_power_action"
                              /\ log[3].state = REBOOT
              /\ IF conf.use_ramdisk_callback
                 THEN log[i].boot_opt = _build_ramdisk_options(call.pre)
                 ELSE DOMAIN log[i].boot_opt = {}
        /\ Calls("node_power_action") \subseteq {3}
        /\ (Len(log) >= 3 /\ ~log[3].ok) => (Len(log) = 3 /\ result.exc # NoExc)
        /\ (conf.use_ramdisk_callback /\ Len(log) >= 3 /\ log[3].ok) =>
              /\ result.exc = NoExc /\ result.ret = CLEANWAIT
              /\ Len(log) = 3
              /\ DriverLeft = call.pre
        /\ (~conf.use_ramdisk_callback /\ Len(log) >= 3 /\ log[3].ok) =>
              /\ result.ret # CLEANWAIT
              /\ Len(log) >= 4 /\ log[4].call = "get_ip_addresses"
              /\ ~IpResolved => (Len(log) = 4 /\ result.exc # NoExc)
              /\ \A p \in Calls("run_playbook") :
                    /\ \E j \in Calls("node.save") : j < p /\ log[j].ok
                    /\ log[p].args.tags = Some(<<"wait">>)
                    /\ log[p].args.playbook = DEFAULT_PLAYBOOKS.clean
                    /\ log[p].args.extra_vars.ironic_nodes[1].ip = log[4].ip_addrs[1]
                    /\ node.driver_internal_info.ansible_cleaning_ip = Some(log[4].ip_addrs[1])
                    /\ result.exc = NoExc <=> log[p].ok
              /\ result.exc = NoExc => \E p \in Calls("run_playbook") : log[p].ok

C13_Witness ==
    /\ call.op = "prepare_cleaning"
    /\ ~conf.use_ramdisk_callback
    /\ \E p \in Calls("run_playbook") : ~log[p].ok
    /\ node.driver_internal_info.ansible_cleaning_ip = Some(<<"a">>)
    /\ node.provision_state = CLEANFAIL

\* the clean-steps file holds a list of mappings that all have the keys
\* name, interface and priority
WellFormed(file) ==
    /\ file.type = "list"
    /\ \A i \in DOMAIN file.items :
          /\ file.items[i].type = "map"
          /\ {"name", "interface", "priority"} \subseteq DOMAIN file.items[i].val

\* the k-th smallest element of a set of positions
Nth(positions, k) ==
    CHOOSE i \in positions : Cardinality({j \in positions : j < i}) = k - 1

\* C14: for a well-formed clean-steps file, any interface filter and any
\* override map, _get_clean_steps returns exactly the entries whose
\* interface equals the filter (all of them without a filter), in file
\* order, each with the override of its name as priority when the override
\* map has a value other than None for it (0 included), and with its own
\* priority otherwise.
C14_StepsFiltered ==
    (call.op \in {"_get_clean_steps", "get_clean_steps"} /\ WellFormed(call.kwargs.file)) =>
        LET items == call.kwargs.file.items
            interface == call.kwargs.interface
            given == call.kwargs.override_priorities
            kept == {i \in DOMAIN items :
                        interface = Absent \/ items[i].val.interface = interface[1]}
            over(name) == IF given # Absent /\ name \in DOMAIN given[1]
                          THEN given[1][name] ELSE Absent
        IN /\ result.exc = NoExc
           /\ Len(result.ret) = Cardinality(kept)
           /\ \A k \in 1..Len(result.ret) :
                 LET e == items[Nth(kept, k)].val
                     got == result.ret[k]
                 IN /\ got.step = e.name
                    /\ got.interface = e.interface
                    /\ got.priority = IF over(e.name) # Absent THEN over(e.name)[1]
                                      ELSE e.priority
                    /\ got.tags = IF "tags" \in DOMAIN e THEN e.tags ELSE <<>>
                    /\ got.abortable = IF "abortable" \in DOMAIN e THEN e.abortable ELSE FALSE
                    /\ got.argsinfo = Absent

C14_Witness ==
    /\ call.op = "_get_clean_steps"
    /\ call.kwargs.interface = Some("deploy")
    /\ call.kwargs.override_priorities = Some([erase_devices |-> Some(0)])
    /\ WellFormed(call.kwargs.file)
    /\ Len(call.kwargs.file.items) = 2
    /\ call.kwargs.file.items[1].val.interface = "power"
    /\ result.exc = NoExc
    /\ Len(result.ret) = 1
    /\ result.ret[1].step = "erase_devices"
    /\ result.ret[1].priority = 0

\* C15: _get_clean_steps fails with NodeCleaningFailure whenever the
\* clean-steps file is missing or malformed (text that is not YAML, a
\* document that is not a list of mappings, an entry without one of name,
\* interface, priority): no other error reaches the caller and no step list
\* is returned.
C15_MalformedFileFails ==
    (call.op = "_get_clean_steps" /\ ~WellFormed(call.kwargs.file)) =>
        result.exc = "NodeCleaningFailure"

\* int() of an optional size of instance_info, 0 standing for a missing
\* swap_mb or ephemeral_gb; Absent when the value is not integer-coercible
Coerced(o) == IF o = Absent THEN Some(0) ELSE int_of(o[1])

\* the last call was _parse_partitioning_info on sizes that are all
\* integer-coercible, root_gb being there
ParsedCoercible ==
    /\ call.op = "_parse_partitioning_info"
    /\ call.kwargs.root_gb # Absent
    /\ \A k \in {"root_gb", "swap_mb", "ephemeral_gb"} : Coerced(call.kwargs[k]) # Absent

\* the Partition Plan returned is root (1024 * root_gb MiB), then swap
\* (swap_mb MiB) iff swap_mb is not 0, then ephemeral (1024 * ephemeral_gb
\* MiB) iff ephemeral_gb is not 0
PlanAsStated ==
    LET root_gb == Coerced(call.kwargs.root_gb)[1]
        swap_mb == Coerced(call.kwargs.swap_mb)[1]
        ephemeral_gb == Coerced(call.kwargs.ephemeral_gb)[1]
        plan == result.ret.ironic_partitions
    IN /\ result.exc = NoExc
       /\ [i \in DOMAIN plan |-> plan[i].name] =
              <<"root">> \o (IF swap_mb # 0 THEN <<"swap">> ELSE <<>>)
                        \o (IF ephemeral_gb # 0 THEN <<"ephemeral">> ELSE <<>>)
       /\ \A i \in DOMAIN plan :
              plan[i].size_mib = CASE plan[i].name = "root" -> 1024 * root_gb
                                   [] plan[i].name = "swap" -> swap_mb
                                   [] plan[i].name = "ephemeral" -> 1024 * ephemeral_gb

\* without root_gb the call fails with MissingParameterValue and returns no plan
NoRootNoPlan ==
    (call.op = "_parse_partitioning_info" /\ call.kwargs.root_gb = Absent) =>
        (result.exc = "MissingParameterValue" /\ result.ret = None)

C17_SizesNonNegative ==
    (ParsedCoercible /\ result.exc = NoExc) =>
        \A i \in DOMAIN result.ret.ironic_partitions :
            result.ret.ironic_partitions[i].size_mib >= 0

\* C18: for every domain and both values of enable, the first element
\* after the header of the command set_policy builds is the domain code,
\* with bit 0x10 set if and only if enable is true.
C18_EnableBit ==
    (call.op = "set_policy" /\ result.exc = NoExc) =>
        int16(result.ret[6]) =
            Some(INTEL_NM_DOMAINS[call.kwargs.domain_id]
                 + (IF call.kwargs.enable THEN 16 ELSE 0))

\* C19: for every policy P with names of the tables, plain-integer
\* target_limit and numbers within their fields, parse_policy(set_policy(P))
\* succeeds and gives back the domain_id, policy_id, policy_trigger, action,
\* power_domain, target_limit, correction_time, trigger_limit and
\* reporting_period of P.
C19_PolicyRoundTrip ==
    call.op = "parse_policy" =>
        /\ result.exc = NoExc
        /\ \A k \in {"domain_id", "policy_id", "policy_trigger", "action", "power_domain",
                      "correction_time", "trigger_limit", "reporting_period"} :
              k \in DOMAIN result.ret /\ result.ret[k] = call.kwargs[k]
        /\ result.ret.target_limit = call.kwargs.target_limit.val

\* the set of the elements of a sequence
Range(seq) == {seq[i] : i \in DOMAIN seq}

\* the last call succeeded and returned the periods of its schedule: as
\* many, in the same order, each with the same start, stop and set of days
PeriodsReturned ==
    /\ result.exc = NoExc
    /\ Len(result.ret) = Len(call.kwargs.periods)
    /\ \A i \in DOMAIN result.ret :
          /\ result.ret[i].start = call.kwargs.periods[i].start
          /\ result.ret[i].stop = call.kwargs.periods[i].stop
          /\ Range(result.ret[i].days) = Range(call.kwargs.periods[i].days)

DayIndex(day) == CHOOSE i \in DOMAIN DAY_ORDER : DAY_ORDER[i] = day

\* the bitwise OR of the bits 0x01 (monday) .. 0x40 (sunday) of a set of days
RECURSIVE DayBits(_)
DayBits(days) ==
    IF days = {} THEN 0
    ELSE LET d == CHOOSE x \in days : TRUE
         IN 2 ^ (DayIndex(d) - 1) + DayBits(days \ {d})

\* C21: for every list D of weekday names, in any order and with
\* repetitions, _days_compose(D) is the bitwise OR of the table bits of its
\* members, and _days_parse(_days_compose(D)) is the list of the distinct
\* members of D in table order; for every 7-bit pattern p,
\* _days_compose(_days_parse(p)) = p.
C21_DaysRoundTrip ==
    /\ (call.op = "_days_compose" /\ call.kwargs.kind = "days") =>
           result.ret = DayBits(Range(call.kwargs.days))
    /\ (call.op = "_days_parse" /\ call.kwargs.kind = "days") =>
           /\ Range(result.ret) = Range(call.kwargs.days)
           /\ \A i, j \in DOMAIN result.ret :
                 i < j => DayIndex(result.ret[i]) < DayIndex(result.ret[j])
    /\ (call.op = "_days_compose" /\ call.kwargs.kind = "pattern") =>
           result.ret = call.kwargs.pattern

\* a list with a repetition and out of table order has been composed and
\* parsed back
C21_Witness ==
    /\ call.op = "_days_parse"
    /\ call.kwargs.kind = "days"
    /\ call.kwargs.days = <<"friday", "monday", "friday">>
    /\ result.ret = <<"monday", "friday">>

\* an element of a raw response that is a hex number, and one that is a
\* hex byte
IsHexNumber(x) == int16(x) # Absent
IsHexByte(x) == IsHexNumber(x) /\ int16(x)[1] <= 255

\* C22: a response of hex bytes shorter than the 21 elements the layout
\* needs fails in parse_capabilities with 'has wrong length'; a full-length
\* response of hex bytes whose byte 20 has a low nibble with no entry in the
\* domain table fails with 'is corrupted'; a response with an element that
\* is not a hex number fails with 'cannot be converted'; and a parse
\* operation never fails with anything but one of these three failures.
C22_DecodeFailures ==
    LET raw == call.kwargs.raw_data
        bytes == \A k \in DOMAIN raw : IsHexByte(raw[k])
    IN /\ call.op = "parse_capabilities" =>
            /\ (bytes /\ Len(raw) < 21) => result.exc = WRONG_LENGTH
            /\ (bytes /\ Len(raw) >= 21 /\ int16(raw[21])[1] % 16 \notin 0..4) =>
                   result.exc = CORRUPTED
            /\ (\E k \in DOMAIN raw : ~IsHexNumber(raw[k])) => result.exc = NOT_CONVERTED
       /\ call.op \in {"parse_capabilities", "parse_version", "parse_policy",
                       "parse_policy_suspend"} =>
            result.exc \in {NoExc, WRONG_LENGTH, CORRUPTED, NOT_CONVERTED}

\* parse_capabilities has refused a full-length response of hex bytes for
\* the low nibble of its byte 20
C22_Witness ==
    /\ call.op = "parse_capabilities"
    /\ Len(call.kwargs.raw_data) >= 21
    /\ \A k \in DOMAIN call.kwargs.raw_data : IsHexByte(call.kwargs.raw_data[k])
    /\ call.kwargs.raw_data[21] = <<"0", "x", "0", "5">>
    /\ result.exc = CORRUPTED

\* the bytes of a file where the five bytes 57 01 00 0d 01 begin
RecordsAt(data) ==
    {i \in 1..(Len(data) - 4) : SubSeq(data, i, i + 4) = SDR_BYTES}

\* C23: for every content of a readable dump file parse_slave_and_channel
\* does not raise: it returns the pair of the first occurrence of the
\* prefix, or no result when the prefix does not occur or occurs with fewer
\* than two bytes after it.
C23_NeverRaises ==
    call.op = "parse_slave_and_channel" =>
        /\ result.exc = NoExc
        /\ (\A i \in RecordsAt(call.kwargs.data) : Len(call.kwargs.data) < i + 6) =>
               result.ret = None

\* C30: whenever parse_slave_and_channel returns a pair, the slave address
\* is the byte that follows a byte-aligned occurrence of 57 01 00 0d 01 in
\* the file and the channel is the high nibble of the byte after it.
C30_AlignedMatchOnly ==
    LET data == call.kwargs.data
    IN (call.op = "parse_slave_and_channel" /\ result.exc = NoExc /\ result.ret # None) =>
          \E i \in RecordsAt(data) :
              /\ Len(data) >= i + 6
              /\ result.ret[1] = <<"0", "x">> \o Pad2(HexDigits(data[i + 5], LowerHex))
              /\ result.ret[2] = <<"0", "x", "0">> \o HexDigits(data[i + 6] \div 16, LowerHex)

\* the command builders
Builders ==
    {"set_policy", "set_policy_again", "set_policy_suspend", "get_capabilities",
     "control_policies", "get_policy", "remove_policy", "get_policy_suspend",
     "remove_policy_suspend", "get_version"}

\* C24: no codec operation has a side effect: every command builder leaves
\* its input record unchanged, and calling it again with an identical input
\* returns an identical output.
C24_NoSideEffect ==
    call.op \in Builders =>
        /\ result.ret.arg = call.kwargs
        /\ result.ret.ret = result.ret.first

\* C25: every element of every command a builder returns is '0x' and two
\* hexadecimal digits, one byte in 0..255, also for a policy_id above 255
\* and start/stop values above 255; a value that does not fit one byte is
\* never emitted as a longer element.
C25_TwoDigitElements ==
    (call.op \in Builders /\ result.exc = NoExc) =>
        \A k \in DOMAIN result.ret.ret :
            /\ Len(result.ret.ret[k]) = 4
            /\ IsHexByte(result.ret.ret[k])

\* C26: for one entry of a node into DEPLOYWAIT, the heartbeats for it run
\* the deploy sequence at most once: a heartbeat that runs a step of the
\* sequence found the node in DEPLOYWAIT, processed 'resume' before the
\* first step and leaves the node in another state; and a node enters
\* DEPLOYWAIT only when deploy returns it, never through a heartbeat.
C26_SequenceOncePerWait ==
    [][/\ (call'.op = "heartbeat" /\ \E i \in DOMAIN log' : SeqStep(log'[i]) > 0) =>
            /\ node.provision_state = DEPLOYWAIT
            /\ node'.provision_state # DEPLOYWAIT
            /\ log'[1].call = "process_event" /\ log'[1].event = "resume"
       /\ (node'.provision_state = DEPLOYWAIT /\ node.provision_state # DEPLOYWAIT) =>
            call'.op = "deploy"]_vars

\* a heartbeat has come for a node whose deploy sequence failed in an
\* earlier heartbeat, and has run no step of the sequence
C26_Witness ==
    /\ HeartbeatIn(DEPLOYFAIL)
    /\ call.pre.last_error # Absent
    /\ call.pre.last_error[1][1] = "Deploy failed"
    /\ \A i \in DOMAIN log : SeqStep(log[i]) = 0
    /\ node = call.pre

\* C27: for one entry of a node into CLEANWAIT, heartbeats issue at most
\* one continue_node_clean RPC in total: a heartbeat that comes while the
\* node is still in CLEANWAIT and the RPC of an earlier heartbeat has not
\* been handled by the conductor sends no second RPC.
C27_OneResumeRpc ==
    [][(call'.op = "heartbeat" /\ node.provision_state = CLEANWAIT /\ rpc_pending > 0) =>
           rpc_pending' = rpc_pending]_vars

\* the calls of the log that write the node record or hand an error to
\* the orchestrator's handlers
NodeWrites ==
    {i \in DOMAIN log :
        log[i].call \in {"node.save", "process_event", "set_failed_state",
                         "cleaning_error_handler"}}

\* C28: every write to the node record and every error-handler call made
\* during a heartbeat happens while the heartbeat's task holds the exclusive
\* node lock; after release_resources the heartbeat mutates the node no
\* more, also when the continue_node_clean RPC fails after the release.
C28_WritesUnderLock ==
    call.op = "heartbeat" =>
        /\ \A i \in NodeWrites : log[i].locked
        /\ \A r \in Calls("release_resources") : log[r].ok =>
              \A i \in NodeWrites : i < r

\* driver_internal_info.ansible_cleaning_ip of a node record
CleaningIp(n) == n.driver_internal_info.ansible_cleaning_ip

\* ansible_cleaning_ip appears on the node only through a synchronous
\* prepare_cleaning or a heartbeat that found the node in CLEANWAIT, and an
\* execute_clean_step that finds none fails with NodeCleaningFailure and
\* runs no playbook
IpSetAndUsed ==
    /\ (CleaningIp(node') # Absent /\ CleaningIp(node') # CleaningIp(node)) =>
          \/ call'.op = "prepare_cleaning" /\ ~conf.use_ramdisk_callback
          \/ call'.op = "heartbeat" /\ node.provision_state = CLEANWAIT
    /\ (call'.op = "execute_clean_step" /\ CleaningIp(node) = Absent) =>
          /\ result'.exc = "NodeCleaningFailure"
          /\ \A i \in DOMAIN log' : log'[i].call # "run_playbook"

====
